---- MODULE Spec2Model ----
(***************************************************************************)
(* A model of the rule-based calendar query engine of UniCal:              *)
(*   src/src/app/api/ai/query/route.ts   (POST, processCalendarQuery and   *)
(*                                        the helpers the route uses)      *)
(*   src/unnamed/part_003                (the exported utils module)       *)
(*                                                                         *)
(* Instants are whole minutes counted from 00:00 of day 0.  The runtime's  *)
(* local time zone is taken to be UTC, as the repository's tests do, so    *)
(* the UTC date key of toISOString() and the local hours of setHours()     *)
(* refer to the same day.  An Invalid Date is the instant NaN.             *)
(***************************************************************************)
EXTENDS Integers, Sequences, FiniteSets, TLC

VARIABLES
    pc,      \* position of the operation under analysis
    query,   \* the query string, as its sequence of words
    events,  \* the caller's array of events
    clock,   \* the wall clock when the operation starts (or the `now` argument)
    env,     \* what the HTTP handler finds around it (session, body, API key, ...)
    out      \* what the operation returned

vars == <<pc, query, events, clock, env, out>>

None == [none |-> TRUE]

Range(seq) == {seq[i] : i \in 1..Len(seq)}

(***************************************************************************)
(* Bounds of the model.                                                    *)
(***************************************************************************)
MaxEvents == 3      \* longest event list given to findOverlappingMeetings
MaxTick == 2        \* findOverlappingMeetings' instants are grid points 0..MaxTick
MaxSlotEvents == 2  \* longest event list given to findFreeSlots

(***************************************************************************)
(* Dates.                                                                  *)
(***************************************************************************)
NaN == -1

MinutesPerDay == 24 * 60

Clock(h, m) == h * 60 + m

At(day, h, m) == day * MinutesPerDay + Clock(h, m)

IsValidDate(t) == t # NaN

\* Date comparisons go through valueOf(): any comparison with NaN is false.
DateLT(a, b) == IsValidDate(a) /\ IsValidDate(b) /\ a < b

DateLE(a, b) == IsValidDate(a) /\ IsValidDate(b) /\ a <= b

DateGT(a, b) == DateLT(b, a)

DateGE(a, b) == DateLE(b, a)

\* Math.max / Math.min of two getTime() values: NaN if either is NaN.
MathMax(a, b) == IF ~IsValidDate(a) \/ ~IsValidDate(b) THEN NaN
                 ELSE IF a >= b THEN a ELSE b

MathMin(a, b) == IF ~IsValidDate(a) \/ ~IsValidDate(b) THEN NaN
                 ELSE IF a <= b THEN a ELSE b

\* date.toISOString().split('T')[0], as the number of the day.
DayOf(t) == t \div MinutesPerDay

MinuteOfDay(t) == t % MinutesPerDay

\* date.setHours(h, m, 0, 0)
SetHours(t, h, m) == DayOf(t) * MinutesPerDay + Clock(h, m)

\* toLocaleTimeString('en-US', {hour: 'numeric', minute: '2-digit', hour12: true})
formatTime(t) ==
    IF ~IsValidDate(t) THEN [hour |-> 0, minute |-> 0, period |-> "Invalid Date"]
    ELSE LET h24 == MinuteOfDay(t) \div 60
             h12 == IF h24 % 12 = 0 THEN 12 ELSE h24 % 12
         IN  [hour |-> h12, minute |-> MinuteOfDay(t) % 60,
              period |-> IF h24 < 12 THEN "AM" ELSE "PM"]

(***************************************************************************)
(* Events.  A text (title, description, location) is the sequence of its   *)
(* lower-case words; an absent optional text is the empty sequence.        *)
(***************************************************************************)
CalendarEventData(id, title, start, end, description) ==
    [id |-> id, title |-> title, start |-> start, end |-> end,
     description |-> description, location |-> <<>>, meetingLink |-> FALSE]

\* [...list].sort((a, b) => a.key - b.key), given the keys: ascending and stable, so
\* an element's place is the number of elements that must come before it.
SortByKeys(list, keys) ==
    LET n == Len(list)
        Before(j, i) == keys[j] < keys[i] \/ (keys[j] = keys[i] /\ j < i)
        Place(i) == 1 + Cardinality({j \in 1..n : Before(j, i)})
    IN  [p \in 1..n |-> list[CHOOSE i \in 1..n : Place(i) = p]]

\* .sort((a, b) => new Date(a.start).getTime() - new Date(b.start).getTime())
SortByStart(list) == SortByKeys(list, [i \in 1..Len(list) |-> list[i].start])

(***************************************************************************)
(* findOverlappingMeetings: the exported one of the utils module and the   *)
(* private one of route.ts.  They differ in the comparison of line 60 and  *)
(* line 1449.                                                              *)
(***************************************************************************)
\* {...event, startDate, endDate}
WithDates(e) ==
    [f \in DOMAIN e \cup {"startDate", "endDate"} |->
        IF f = "startDate" THEN e.start
        ELSE IF f = "endDate" THEN e.end
        ELSE e[f]]

EventsWithDates(list) == [i \in 1..Len(list) |-> WithDates(list[i])]

SortByStartDate(list) == SortByStart(list)

Overlap(event1, event2) ==
    [event1 |-> event1, event2 |-> event2,
     overlapStart |-> MathMax(event1.startDate, event2.startDate),
     overlapEnd |-> MathMin(event1.endDate, event2.endDate)]

UtilsOverlapTestStrict(event1, event2) == DateLT(event2.startDate, event1.endDate)

\* utils, line 60: event2.startDate <= event1.endDate
UtilsOverlapTest(event1, event2) == DateLE(event2.startDate, event1.endDate)

\* route.ts, line 1449: event2.startDate < event1.endDate
RouteOverlapTest(event1, event2) == DateLT(event2.startDate, event1.endDate)

OverlapTest(impl, event1, event2) ==
    IF impl = "utils" THEN UtilsOverlapTest(event1, event2)
    ELSE RouteOverlapTest(event1, event2)

\* The two nested loops: i ascending, and for each i, j ascending from i + 1.
OverlapLoop(impl, sortedEvents) ==
    LET n == Len(sortedEvents)
        loop[i \in 1..(n + 1), j \in 2..(n + 2)] ==
            IF i > n - 1 THEN <<>>
            ELSE IF j > n THEN loop[i + 1, i + 2]
            ELSE (IF OverlapTest(impl, sortedEvents[i], sortedEvents[j])
                  THEN <<Overlap(sortedEvents[i], sortedEvents[j])>>
                  ELSE <<>>)
                 \o loop[i, j + 1]
    IN  loop[1, 2]

OverlapResult(impl, list) ==
    IF Len(list) < 2 THEN [overlaps |-> <<>>, hasOverlaps |-> FALSE]
    ELSE LET found == OverlapLoop(impl, SortByStartDate(EventsWithDates(list)))
         IN  [overlaps |-> found, hasOverlaps |-> found # <<>>]

UtilsFindOverlappingMeetings(list) == OverlapResult("utils", list)

findOverlappingMeetings(list) == OverlapResult("route", list)

(***************************************************************************)
(* findFreeSlots: the exported one of the utils module and the private one *)
(* of route.ts.  Both return strings 'From <time> to <time>'; FreeSlotWalk *)
(* keeps the instants each string is formatted from.                       *)
(***************************************************************************)
FreeSlotThreshold == 30     \* 30 * 60 * 1000 ms, in minutes

WorkdayStartHour == 9       \* utils: startOfDay.setHours(9, 0, 0, 0)

WorkdayEndHour == 18        \* endOfDay.setHours(18, 0, 0)

\* `From ${formatTime(from)} to ${formatTime(to)}`
SlotText(range) == [from |-> formatTime(range[1]), to |-> formatTime(range[2])]

GapAtLeast(from, to) ==
    IsValidDate(from) /\ IsValidDate(to) /\ to - from >= FreeSlotThreshold

\* eventStart.getTime() - lastEndTime.getTime() > 30 * 60 * 1000
GapExceeds(from, to) ==
    IsValidDate(from) /\ IsValidDate(to) /\ to - from > FreeSlotThreshold

\* The for loop over sortedEvents and the check after it: the ranges pushed, in order.
FreeSlotWalk(sortedEvents, start, endOfDay) ==
    LET n == Len(sortedEvents)
        walk[k \in 0..n] ==
            IF k = 0 THEN [slots |-> <<>>, lastEndTime |-> start]
            ELSE LET before == walk[k - 1]
                     event == sortedEvents[k]
                 IN  [slots |->
                         IF GapExceeds(before.lastEndTime, event.start)
                         THEN Append(before.slots, <<before.lastEndTime, event.start>>)
                         ELSE before.slots,
                      lastEndTime |->
                         IF DateGT(event.end, before.lastEndTime)
                         THEN event.end ELSE before.lastEndTime]
        after == walk[n]
    IN  IF GapExceeds(after.lastEndTime, endOfDay)
        THEN Append(after.slots, <<after.lastEndTime, endOfDay>>)
        ELSE after.slots

\* utils: the scan starts at 09:00 of now's day, whatever now is.
UtilsFreeSlotRanges(list, now) ==
    LET startOfDay == SetHours(now, WorkdayStartHour, 0)
        endOfDay == SetHours(now, WorkdayEndHour, 0)
    IN  IF Len(list) = 0 THEN <<(<<startOfDay, endOfDay>>)>>
        ELSE FreeSlotWalk(SortByStart(list), startOfDay, endOfDay)

\* route.ts: no events give no slots, and the scan starts at now.
RouteFreeSlotRanges(list, now) ==
    LET endOfDay == SetHours(now, WorkdayEndHour, 0)
    IN  IF Len(list) = 0 THEN <<>>
        ELSE FreeSlotWalk(SortByStart(list), now, endOfDay)

Texts(ranges) == [i \in 1..Len(ranges) |-> SlotText(ranges[i])]

UtilsFindFreeSlots(list, now) == Texts(UtilsFreeSlotRanges(list, now))

findFreeSlots(list, now) == Texts(RouteFreeSlotRanges(list, now))

(***************************************************************************)
(* Text.  A string is the sequence of its blank-separated words, in lower  *)
(* case.  What JavaScript computes on the characters of a word (includes,  *)
(* length, replace) is tabulated for the words the model uses.             *)
(***************************************************************************)
\* <<w, p>>: p is a proper substring of the word w (here always a prefix).
ProperPrefixes ==
    {<<"meetings", "meeting">>, <<"overlapping", "overlap">>, <<"standups", "standup">>,
     <<"interviews", "interview">>, <<"monthly", "month">>, <<"planning", "plann">>,
     <<"reviews", "review">>, <<"martin", "mart">>}

\* word.includes(part), for a part without blanks
WordIncludes(word, part) == word = part \/ <<word, part>> \in ProperPrefixes

\* The words of length <= 2.
ShortWords ==
    {"i", "do", "am", "a", "an", "in", "on", "at", "or", "is", "be", "no", "me", "up", "11"}

\* text.includes(phrase) for a phrase of one or more words: the phrase's first word
\* ends a word of the text, its last word begins one, the others are equal.
TextIncludes(text, phrase) ==
    IF Len(phrase) = 1
    THEN \E i \in 1..Len(text) : WordIncludes(text[i], phrase[1])
    ELSE \E i \in 1..(Len(text) - Len(phrase) + 1) :
            /\ text[i] = phrase[1]
            /\ \A k \in 2..(Len(phrase) - 1) : text[i + k - 1] = phrase[k]
            /\ WordIncludes(text[i + Len(phrase) - 1], phrase[Len(phrase)])

Includes(text, word) == TextIncludes(text, <<word>>)

\* word.replace(/[^\w\s-]/gi, ''): the slashes of a DD/MM/YYYY literal and the colon
\* of a clock time go, hyphens stay.
StripPunctuation(word) ==
    CASE word = "22/04/2025" -> "22042025"
      [] word = "23/04/2025" -> "23042025"
      [] word = "31/02/2025" -> "31022025"
      [] word = "1:1" -> "11"
      [] OTHER -> word

commonWords ==
    {"meeting", "meetings", "calendar", "schedule", "appointment", "appointments",
     "the", "a", "an", "in", "on", "at", "with", "and", "or", "for", "about",
     "have", "has", "had", "do", "does", "did", "is", "are", "was", "were", "be",
     "being", "been", "this", "that", "these", "those", "any", "all", "some",
     "how", "many", "much", "when", "where", "what", "who", "why", "which",
     "today", "tomorrow", "yesterday", "next", "previous", "week", "month", "day"}

meetingTypes ==
    <<"interview", "standup", "review", "planning", "retrospective", "demo",
      "presentation", "workshop", "1:1", "one-on-one", "sync", "catch-up",
      "check-in", "orientation", "training", "feedback">>

\* <<w, t>>: w is t + 's' or t + 'ing'
Inflections ==
    {<<"standups", "standup">>, <<"interviews", "interview">>, <<"reviews", "review">>,
     <<"interviewing", "interview">>, <<"syncs", "sync">>}

\* word === type || word === type + 's' || word === type + 'ing'
IsFormOf(word, type) == word = type \/ <<word, type>> \in Inflections

\* extractKeywords of route.ts (the utils copy adds three canned answers in front).
extractKeywords(text) ==
    LET words == [i \in 1..Len(text) |-> StripPunctuation(text[i])]
        IsFound(type) == \E i \in 1..Len(words) : IsFormOf(words[i], type)
        foundTypes == SelectSeq(meetingTypes, IsFound)
        IsKeyword(word) == word \notin ShortWords /\ word \notin commonWords
        extractedKeywords == SelectSeq(words, IsKeyword)
    IN  IF Len(foundTypes) > 0 THEN foundTypes
        ELSE IF Len(extractedKeywords) = 0 /\ Len(words) > 0
                /\ words[Len(words)] \notin ShortWords
             THEN <<words[Len(words)]>>
        ELSE extractedKeywords

\* title?.toLowerCase().includes(keyword) || description?... || location?...
EventMentions(event, keyword) ==
    \/ Includes(event.title, keyword)
    \/ Includes(event.description, keyword)
    \/ Includes(event.location, keyword)

findRelatedEvents(text, list) ==
    LET keywords == extractKeywords(text)
        Matches(event) == \E k \in 1..Len(keywords) : EventMentions(event, keywords[k])
    IN  IF Len(keywords) = 0 THEN <<>> ELSE SelectSeq(list, Matches)

(***************************************************************************)
(* The calendar.  Day 0 is Wednesday 2025-01-01; the model stays in 2025.  *)
(***************************************************************************)
DaysInMonth == <<31, 28, 31, 30, 31, 30, 31, 31, 30, 31, 30, 31>>

DaysBeforeMonth(month) ==
    LET sum[m \in 1..13] == IF m = 1 THEN 0 ELSE sum[m - 1] + DaysInMonth[m - 1]
    IN  sum[month]

\* The day with the given month (1..12) and day of month; a day past the month's end
\* runs on into the next month, as setDate and setMonth have it.
DayNumber(month, dayOfMonth) == DaysBeforeMonth(month) + dayOfMonth - 1

\* date.getMonth() + 1
MonthOf(day) == CHOOSE m \in 1..12 : DaysBeforeMonth(m) <= day /\ day < DaysBeforeMonth(m + 1)

\* date.getDate()
DateOf(day) == day - DaysBeforeMonth(MonthOf(day)) + 1

\* date.getDay(): 0 is Sunday
WeekdayOf(day) == (3 + day) % 7

weekdayNames == <<"sunday", "monday", "tuesday", "wednesday", "thursday", "friday", "saturday">>

\* date.setHours(0, 0, 0, 0)
StartOfDay(t) == SetHours(t, 0, 0)

\* date.setDate(date.getDate() + n)
AddDays(t, n) == t + n * MinutesPerDay

(***************************************************************************)
(* What the router reads in the query.                                     *)
(***************************************************************************)
\* The words that match /\d{1,2}\/\d{1,2}\/\d{4}/ or /\d{4}-\d{1,2}-\d{1,2}/, with the
\* groups the regular expression captures.
DateLiteral(word) ==
    CASE word = "22/04/2025" -> [shape |-> "dmy", year |-> 2025, month |-> 4, day |-> 22]
      [] word = "23/04/2025" -> [shape |-> "dmy", year |-> 2025, month |-> 4, day |-> 23]
      [] word = "2025-04-23" -> [shape |-> "ymd", year |-> 2025, month |-> 4, day |-> 23]
      [] word = "31/02/2025" -> [shape |-> "dmy", year |-> 2025, month |-> 2, day |-> 31]
      [] word = "2025-13-01" -> [shape |-> "ymd", year |-> 2025, month |-> 13, day |-> 1]
      [] OTHER -> [shape |-> "none", year |-> 0, month |-> 0, day |-> 0]

IsDateLiteral(word) == DateLiteral(word).shape # "none"

\* new Date(`${year}-${month}-${day}`) of a date-only ISO string, as V8 parses it:
\* midnight UTC; a month outside 1..12 or a day outside 1..31 is an Invalid Date, a day
\* past the end of its month runs on into the next month.
NewDateFromISO(fields) ==
    IF fields.month \notin 1..12 \/ fields.day \notin 1..31 THEN NaN
    ELSE DayNumber(fields.month, fields.day) * MinutesPerDay

\* The date the explicit-date branch extracts: the first DD/MM/YYYY literal if there is
\* one, else the first YYYY-MM-DD literal.
ExtractTargetDate(text) ==
    LET shaped(shape) == {i \in 1..Len(text) : DateLiteral(text[i]).shape = shape}
        first(set) == CHOOSE i \in set : \A j \in set : i <= j
    IN  IF shaped("dmy") # {} THEN NewDateFromISO(DateLiteral(text[first(shaped("dmy"))]))
        ELSE IF shaped("ymd") # {} THEN NewDateFromISO(DateLiteral(text[first(shaped("ymd"))]))
        ELSE NaN

HasDateLiteral(text) == \E i \in 1..Len(text) : IsDateLiteral(text[i])

\* The loop over weekdayNames: the first name, in the order of the list, that the query
\* includes; 0 stands for no match (the code's -1), else the index is 1 + getDay().
MatchedWeekday(text) ==
    LET hits == {i \in 1..7 : Includes(text, weekdayNames[i])}
    IN  IF hits = {} THEN 0 ELSE CHOOSE i \in hits : \A j \in hits : i <= j

\* <<w, p>>: the word w holds 'on', 'at' or 'in' after its first letter, and p is what
\* precedes the first of them.
StopInside ==
    {<<"monday", "m">>, <<"martin", "mart">>, <<"meeting", "meet">>, <<"meetings", "meet">>,
     <<"overlapping", "overlapp">>, <<"find", "f">>, <<"month", "m">>,
     <<"conflict", "c">>, <<"description", "descripti">>, <<"what", "wh">>,
     <<"appointment", "appo">>}

\* The words that begin with 'on', 'at' or 'in'.
StopAtStart == {"on", "at", "in", "interview", "interviews"}

\* extractPersonName: /(?:meeting|meetings) with (.+?)(?:$|\?|on|at|in)/i.  The lazy
\* group takes at least one character and stops before the first 'on', 'at' or 'in',
\* wherever it stands; the result is trimmed.  <<>> stands for null.
extractPersonName(text) ==
    LET heads == {i \in 1..(Len(text) - 1) :
                     text[i] \in {"meeting", "meetings"} /\ text[i + 1] = "with"}
        head == CHOOSE i \in heads : \A j \in heads : i <= j
        tail == SubSeq(text, head + 2, Len(text))
        StopsAt(k) == (k >= 2 /\ tail[k] \in StopAtStart)
                      \/ \E pair \in StopInside : pair[1] = tail[k]
        stops == {k \in 1..Len(tail) : StopsAt(k)}
        stop == CHOOSE k \in stops : \A j \in stops : k <= j
        Piece(k) == IF k >= 2 /\ tail[k] \in StopAtStart THEN <<>>
                    ELSE <<(CHOOSE pair \in StopInside : pair[1] = tail[k])[2]>>
    IN  IF heads = {} THEN <<>>
        ELSE IF Len(tail) = 0 THEN <<>>
        ELSE IF stops = {} THEN tail
        ELSE SubSeq(tail, 1, stop - 1) \o Piece(stop)

\* The words that match /(\d{1,2})(?::(\d{2}))?\s*(am|pm)/, with the captured groups;
\* minute -1 stands for an absent second group.
ClockLiteral(word) ==
    CASE word = "3pm" -> [hour |-> 3, minute |-> -1, period |-> "pm"]
      [] word = "9am" -> [hour |-> 9, minute |-> -1, period |-> "am"]
      [] word = "10:15am" -> [hour |-> 10, minute |-> 15, period |-> "am"]
      [] OTHER -> [hour |-> -1, minute |-> -1, period |-> ""]

IsClockLiteral(word) == ClockLiteral(word).period # ""

\* The first match of the clock-time expression, optionally only after the given word
\* ('after', 'before'); 0 when there is none.
ClockMatch(text, lead) ==
    LET hits == {i \in 1..Len(text) :
                    /\ IsClockLiteral(text[i])
                    /\ (lead # "" => (i > 1 /\ text[i - 1] = lead))}
    IN  IF hits = {} THEN 0 ELSE CHOOSE i \in hits : \A j \in hits : i <= j

\* parseTimeFromMatch: the clock time on the day of a fresh new Date().
parseTimeFromMatch(match, fresh) ==
    LET hour == match.hour
        minute == IF match.minute >= 0 THEN match.minute ELSE 0
        isPM == match.period = "pm" /\ hour < 12
        queryHour == IF isPM THEN hour + 12
                     ELSE IF hour = 12 /\ match.period = "am" THEN 0 ELSE hour
    IN  [time |-> SetHours(fresh, queryHour, minute), displayTime |-> match]

NoClock == ClockLiteral("")

(***************************************************************************)
(* Answers.  An answer is kept as the sentence it opens with (n standing   *)
(* for the count it states, with the noun the count goes with), the bullet *)
(* lines that follow, and the names and times filled into the sentence.    *)
(***************************************************************************)
Reply(sentence, n, noun, bullets) ==
    [sentence |-> sentence, n |-> n, noun |-> noun, bullets |-> bullets,
     subject |-> <<>>, date |-> NaN, times |-> <<>>, ranges |-> <<>>,
     display |-> NoClock, trailer |-> ""]

Say(sentence) == Reply(sentence, 0, "", <<>>)

\* relatedEvents.length > 0 ? relatedEvents : undefined
Highlight(list) == [defined |-> Len(list) > 0, list |-> list]

Result(reply, relatedEvents) ==
    [threw |-> FALSE, answer |-> reply, relatedEvents |-> Highlight(relatedEvents)]

\* An exception leaves the function.
Thrown == [threw |-> TRUE, answer |-> Say(""), relatedEvents |-> Highlight(<<>>)]

\* `• **${event.title}** from ${formatTime(event.start)} to ${formatTime(event.end)}`
Bullet(event) ==
    [title |-> event.title, from |-> formatTime(event.start), to |-> formatTime(event.end),
     note |-> ""]

formatAllButLast(list) == [i \in 1..(Len(list) - 1) |-> Bullet(list[i])]

formatMeetingsList(list) == [i \in 1..Len(list) |-> Bullet(list[i])]

\* meeting${n === 1 ? '' : 's'}
Meetings(n) == IF n = 1 THEN "meeting" ELSE "meetings"

\* normalizedQuery.includes('how many') || normalizedQuery.includes('number of')
IsCountQuery(text) ==
    TextIncludes(text, <<"how", "many">>) \/ TextIncludes(text, <<"number", "of">>)

\* event.start.includes(dateStr): the string of a bad date holds no date.
StartsOn(event, day) == IsValidDate(event.start) /\ DayOf(event.start) = day

\* new Date(event.start).toISOString() throws a RangeError on an Invalid Date.
AnyBadStart(list) == \E i \in 1..Len(list) : ~IsValidDate(list[i].start)

\* The two forms of a listing answer: the count with an offer to list, or the count
\* followed by the bullet lines.
Listing(text, list, counted, listed) ==
    IF IsCountQuery(text)
    THEN Reply(counted, Len(list), Meetings(Len(list)), <<>>)
    ELSE Reply(listed, Len(list), Meetings(Len(list)), formatMeetingsList(list))

(***************************************************************************)
(* processCalendarQuery, branch by branch in the order of the source.      *)
(* today is the new Date() of line 648; now is the new Date() a branch     *)
(* takes for itself; fresh is the new Date() of parseTimeFromMatch.        *)
(***************************************************************************)
\* lines 671-689
TodayBranch(text, list, today) ==
    LET IsToday(event) == StartsOn(event, DayOf(today))
        relatedEvents == SelectSeq(list, IsToday)
    IN  IF Len(relatedEvents) = 0
        THEN Result(Say("You have no meetings scheduled for today."), relatedEvents)
        ELSE Result(Listing(text, relatedEvents,
                            "You have {n} {noun} today. Would you like me to list them?",
                            "You have {n} {noun} today:"),
                    relatedEvents)

\* lines 690-708
TomorrowBranch(text, list, today) ==
    LET IsTomorrow(event) == StartsOn(event, DayOf(AddDays(today, 1)))
        relatedEvents == SelectSeq(list, IsTomorrow)
    IN  IF Len(relatedEvents) = 0
        THEN Result(Say("You have no meetings scheduled for tomorrow."), relatedEvents)
        ELSE Result(Listing(text, relatedEvents,
                            "You have {n} {noun} tomorrow. Would you like me to list them?",
                            "You have {n} {noun} tomorrow:"),
                    relatedEvents)

\* The filter of lines 735-738 (and 775-778, 1113-1116): the events whose start has the
\* given date key, sorted by start.  It is only evaluated when no start is invalid.
EventsOnDay(list, day) ==
    LET OnDay(event) == DayOf(event.start) = day
    IN  SortByStart(SelectSeq(list, OnDay))

\* lines 710-759
DateBranch(text, list, unrelated) ==
    LET targetDate == ExtractTargetDate(text)
        relatedEvents == EventsOnDay(list, DayOf(targetDate))
        On(reply) == [reply EXCEPT !.date = DayOf(targetDate)]
    IN  IF ~IsValidDate(targetDate)
        THEN Result(Say("I couldn't understand the date format. Please try using DD/MM/YYYY or YYYY-MM-DD format."),
                    unrelated)
        ELSE IF AnyBadStart(list) THEN Thrown
        ELSE IF Len(relatedEvents) = 0
        THEN Result(On(Say("You have no meetings scheduled for {date}.")), relatedEvents)
        ELSE Result(On(Listing(text, relatedEvents,
                               "You have {n} {noun} on {date}. Would you like me to list them?",
                               "You have {n} {noun} on {date}:")),
                    relatedEvents)

\* lines 763-772: the day the weekday branch looks at
WeekdayTarget(text, today) ==
    LET matchedWeekday == MatchedWeekday(text) - 1
        isNextWeek == Includes(text, "next")
        daysToAdd == matchedWeekday - WeekdayOf(DayOf(today))
    IN  DayOf(today) + (IF daysToAdd <= 0 \/ isNextWeek THEN daysToAdd + 7 ELSE daysToAdd)

\* lines 761-798
WeekdayBranch(text, list, today) ==
    LET relatedEvents == EventsOnDay(list, WeekdayTarget(text, today))
        name == (IF Includes(text, "next") THEN <<"next">> ELSE <<"">>)
                \o <<weekdayNames[MatchedWeekday(text)]>>
        Named(reply) == [reply EXCEPT !.subject = name]
    IN  IF AnyBadStart(list) THEN Thrown
        ELSE IF Len(relatedEvents) = 0
        THEN Result(Named(Say("You have no meetings scheduled for {subject}.")), relatedEvents)
        ELSE Result(Named(Listing(text, relatedEvents,
                                  "You have {n} {noun} on {subject}. Would you like me to list them?",
                                  "You have {n} {noun} on {subject}:")),
                    relatedEvents)

\* lines 800-824
PersonBranch(text, list, unrelated) ==
    LET person == extractPersonName(text)
        IsWith(event) == TextIncludes(event.title, person)
                         \/ TextIncludes(event.description, person)
        relatedEvents == SelectSeq(list, IsWith)
        With(reply) == [reply EXCEPT !.subject = person]
    IN  IF person = <<>>
        THEN Result(Say("Please specify the person's name you're looking for."), unrelated)
        ELSE IF Len(relatedEvents) = 0
        THEN Result(With(Say("I couldn't find any meetings with {subject}.")), relatedEvents)
        ELSE Result(With(Listing(text, relatedEvents,
                                 "You have {n} {noun} with {subject}. Would you like me to list them?",
                                 "You have {n} {noun} with {subject}:")),
                    relatedEvents)

\* .filter(event => new Date(event.start) > now).sort(by start)
UpcomingEvents(list, now) ==
    LET IsLater(event) == DateGT(event.start, now)
    IN  SortByStart(SelectSeq(list, IsLater))

\* lines 826-853
NextMeetingBranch(list, now, unrelated) ==
    LET upcomingEvents == UpcomingEvents(list, now)
        nextEvent == upcomingEvents[1]
    IN  IF Len(upcomingEvents) = 0
        THEN Result(Say("You have no upcoming meetings scheduled."), unrelated)
        ELSE Result([Say("Your next meeting is {subject} on {date} from {times}.")
                        EXCEPT !.subject = nextEvent.title,
                               !.date = DayOf(nextEvent.start),
                               !.times = <<formatTime(nextEvent.start), formatTime(nextEvent.end)>>,
                               !.trailer = IF nextEvent.meetingLink
                                           THEN "This meeting has an online meeting link."
                                           ELSE ""],
                    <<nextEvent>>)

\* lines 861-880: the events the overlap branch looks at
OverlapTargetEvents(text, list, targetDate) ==
    LET IsToday(event) == DayOf(event.start) = DayOf(targetDate)
        IsTomorrow(event) == DayOf(event.start) = DayOf(AddDays(targetDate, 1))
        IsUpcoming(event) == DateGE(event.start, targetDate)
    IN  IF Includes(text, "today") THEN SelectSeq(list, IsToday)
        ELSE IF Includes(text, "tomorrow") THEN SelectSeq(list, IsTomorrow)
        ELSE SelectSeq(list, IsUpcoming)

\* lines 856-927
OverlapBranch(text, list, targetDate, unrelated) ==
    LET found == findOverlappingMeetings(OverlapTargetEvents(text, list, targetDate))
        overlaps == found.overlaps
        n == Len(overlaps)
        Side(k) == IF k % 2 = 1 THEN overlaps[(k + 1) \div 2].event1
                   ELSE overlaps[k \div 2].event2
        sides == [k \in 1..(2 * n) |-> Side(k)]
        Window(i) == [from |-> formatTime(overlaps[i].overlapStart),
                      to |-> formatTime(overlaps[i].overlapEnd)]
        scoped == Includes(text, "today") \/ Includes(text, "tomorrow")
    IN  IF scoped /\ AnyBadStart(list) THEN Thrown
        ELSE IF ~found.hasOverlaps
        THEN Result(Say(IF Includes(text, "today")
                        THEN "You don't have any overlapping meetings today."
                        ELSE IF Includes(text, "tomorrow")
                        THEN "You don't have any overlapping meetings tomorrow."
                        ELSE "You don't have any overlapping meetings in your schedule."),
                    unrelated)
        ELSE Result([Reply(IF Includes(text, "today")
                           THEN "Yes, you have {n} overlapping meeting {noun} today:"
                           ELSE IF Includes(text, "tomorrow")
                           THEN "Yes, you have {n} overlapping meeting {noun} tomorrow:"
                           ELSE "Yes, you have {n} overlapping meeting {noun} in your schedule:",
                           n, IF n = 1 THEN "pair" ELSE "pairs",
                           formatMeetingsList(sides))
                        EXCEPT !.ranges = [i \in 1..n |-> Window(i)]],
                    sides)

\* The words that begin with a digit.
StartsWithDigit(word) == IsClockLiteral(word) \/ IsDateLiteral(word) \/ word = "1:1"

\* normalizedQuery.match(/free at \d/)
MatchesFreeAt(text) ==
    \E i \in 1..(Len(text) - 2) :
        text[i] = "free" /\ text[i + 1] = "at" /\ StartsWithDigit(text[i + 2])

\* lines 956-986: 'free after <time>'
AfterTimeBranch(text, list, today, now, fresh, unrelated) ==
    LET parsed == parseTimeFromMatch(ClockLiteral(text[ClockMatch(text, "after")]), fresh)
        afterTime == IF parsed.time < now THEN parsed.time + 12 * 60 ELSE parsed.time
        IsLater(event) == DayOf(event.start) = DayOf(today) /\ DateGE(event.start, afterTime)
        laterEvents == SortByStart(SelectSeq(list, IsLater))
        nextEvent == laterEvents[1]
        Shown(reply) == [reply EXCEPT !.display = parsed.displayTime]
    IN  IF AnyBadStart(list) THEN Thrown
        ELSE IF Len(laterEvents) = 0
        THEN Result(Shown(Say("Yes, you're free after {display}.")), unrelated)
        ELSE IF nextEvent.start - afterTime > FreeSlotThreshold
        THEN Result([Shown(Say("Yes, you're free after {display} until {times}."))
                        EXCEPT !.times = <<formatTime(nextEvent.start)>>],
                    unrelated)
        ELSE Result([Say("No, you have {subject} at {times}.")
                        EXCEPT !.subject = nextEvent.title,
                               !.times = <<formatTime(nextEvent.start)>>],
                    unrelated)

\* lines 987-1018: 'free before <time>'
BeforeTimeBranch(text, list, today, now, fresh, unrelated) ==
    LET parsed == parseTimeFromMatch(ClockLiteral(text[ClockMatch(text, "before")]), fresh)
        beforeTime == parsed.time
        IsEarlier(event) == /\ DayOf(event.start) = DayOf(today)
                            /\ DateLT(event.start, beforeTime)
                            /\ DateGT(event.end, now)
        chosen == SelectSeq(list, IsEarlier)
        earlierEvents == SortByKeys(chosen, [i \in 1..Len(chosen) |-> chosen[i].end])
        lastEvent == earlierEvents[Len(earlierEvents)]
        Shown(reply) == [reply EXCEPT !.display = parsed.displayTime]
    IN  IF AnyBadStart(list) THEN Thrown
        ELSE IF Len(earlierEvents) = 0
        THEN Result(IF beforeTime < now THEN Say("That time has already passed.")
                    ELSE Shown(Say("Yes, you're free before {display}.")),
                    unrelated)
        ELSE IF \/ beforeTime - lastEvent.end < FreeSlotThreshold
                \/ (DateLE(lastEvent.start, now) /\ DateGT(lastEvent.end, now))
        THEN Result([Say("No, you have {subject} until {times}.")
                        EXCEPT !.subject = lastEvent.title,
                               !.times = <<formatTime(lastEvent.end)>>],
                    unrelated)
        ELSE Result([Shown(Say("Yes, you're free from {times} until {display}."))
                        EXCEPT !.times = <<formatTime(lastEvent.end)>>],
                    unrelated)

\* lines 1019-1044: 'free at <time>'
ExactTimeBranch(text, list, today, now, fresh, unrelated) ==
    LET parsed == parseTimeFromMatch(ClockLiteral(text[ClockMatch(text, "")]), fresh)
        queryTime == parsed.time
        Covers(event) == /\ DayOf(event.start) = DayOf(today)
                         /\ DateLE(event.start, queryTime)
                         /\ DateGT(event.end, queryTime)
        overlappingEvents == SelectSeq(list, Covers)
        event == overlappingEvents[1]
    IN  IF queryTime < now THEN Result(Say("That time has already passed today."), unrelated)
        ELSE IF AnyBadStart(list) THEN Thrown
        ELSE IF Len(overlappingEvents) = 0
        THEN Result([Say("Yes, you're free at {display}.")
                        EXCEPT !.display = parsed.displayTime],
                    unrelated)
        ELSE Result([Say("No, you have {subject} from {times}.")
                        EXCEPT !.subject = event.title,
                               !.times = <<formatTime(event.start), formatTime(event.end)>>],
                    unrelated)

\* lines 1046-1091: the general availability question
GeneralAvailabilityBranch(text, list, today, now) ==
    LET Remaining(event) == StartsOn(event, DayOf(today)) /\ DateGT(event.end, now)
        todayEvents == SortByStart(SelectSeq(list, Remaining))
        freeSlots == findFreeSlots(todayEvents, now)
        asksBusy == Includes(text, "busy") \/ Includes(text, "meeting")
    IN  IF Len(todayEvents) = 0
        THEN Result(Say("You have no more meetings today."), todayEvents)
        ELSE IF Len(freeSlots) > 0
        THEN Result(IF asksBusy
                    THEN Reply("Your busy periods today:", 0, "", formatMeetingsList(todayEvents))
                    ELSE IF Includes(text, "when")
                    THEN [Say("Free times today: {ranges}.") EXCEPT !.ranges = freeSlots]
                    ELSE Say("Yes, you have free time today."),
                    todayEvents)
        ELSE Result(IF asksBusy
                    THEN [Reply("No free time remaining today.", 0, "",
                                formatMeetingsList(todayEvents))
                             EXCEPT !.trailer = "Your schedule:"]
                    ELSE Say("No free time remaining today."),
                    todayEvents)

\* lines 928-1092
AvailabilityBranch(text, list, today, now, fresh, unrelated) ==
    IF ClockMatch(text, "after") # 0
    THEN AfterTimeBranch(text, list, today, now, fresh, unrelated)
    ELSE IF ClockMatch(text, "before") # 0
    THEN BeforeTimeBranch(text, list, today, now, fresh, unrelated)
    ELSE IF ClockMatch(text, "") # 0
    THEN ExactTimeBranch(text, list, today, now, fresh, unrelated)
    ELSE GeneralAvailabilityBranch(text, list, today, now)

\* The placeholder the calendar providers put for a missing description.
NoDescriptionAvailable == <<"no", "description", "available">>

\* lines 1140-1143
HasNoAgenda(event) ==
    event.description = <<>> \/ event.description = NoDescriptionAvailable

\* lines 1094-1184
AgendaBranch(text, list, now, unrelated) ==
    LET timeframe == IF Includes(text, "tomorrow") THEN "tomorrow"
                     ELSE IF Includes(text, "yesterday") THEN "yesterday"
                     ELSE "today"
        targetDate == IF timeframe = "tomorrow" THEN AddDays(now, 1)
                      ELSE IF timeframe = "yesterday" THEN AddDays(now, -1)
                      ELSE now
        dateEvents == EventsOnDay(list, DayOf(targetDate))
        lookingForNoAgenda ==
            \/ TextIncludes(text, <<"no", "agenda">>)
            \/ TextIncludes(text, <<"without", "agenda">>)
            \/ TextIncludes(text, <<"missing", "agenda">>)
            \/ TextIncludes(text, <<"no", "description">>)
            \/ TextIncludes(text, <<"without", "description">>)
        HasAgenda(event) == ~HasNoAgenda(event)
        eventsWithoutAgenda == SelectSeq(dateEvents, HasNoAgenda)
        eventsWithAgenda == SelectSeq(dateEvents, HasAgenda)
        chosen == IF lookingForNoAgenda THEN eventsWithoutAgenda ELSE eventsWithAgenda
        n == Len(chosen)
        Within(reply) == [reply EXCEPT !.trailer = timeframe]
    IN  IF AnyBadStart(list) THEN Thrown
        ELSE IF n = 0
        THEN Result(Within(Say(IF lookingForNoAgenda
                               THEN "No meetings {trailer} are missing agenda or descriptions."
                               ELSE "No meetings {trailer} have agenda or descriptions.")),
                    unrelated)
        ELSE Result(Within(Reply(IF lookingForNoAgenda
                                 THEN "{n} {noun} {trailer} has/have no agenda:"
                                 ELSE "{n} {noun} {trailer} has/have an agenda:",
                                 n, Meetings(n), formatMeetingsList(chosen))),
                    chosen)

\* normalizedQuery.match(/how many (.+?) (?:meetings|do I have)/)[1]: the words between
\* 'how many' and the nearest following ' meetings', at least one; <<>> for no match.
\* The second alternative has a capital I and never matches the lower-cased query.
TypeMatch(text) ==
    LET Closes(i) == {k \in (i + 3)..Len(text) : WordIncludes(text[k], "meetings")}
        heads == {i \in 1..(Len(text) - 1) :
                     text[i] = "how" /\ text[i + 1] = "many" /\ Closes(i) # {}}
        head == CHOOSE i \in heads : \A j \in heads : i <= j
        close == CHOOSE k \in Closes(head) : \A j \in Closes(head) : k <= j
    IN  IF heads = {} THEN <<>> ELSE SubSeq(text, head + 2, close - 1)

\* word.replace(/ing$/, '')
WithoutIng(word) ==
    CASE word = "planning" -> "plann"
      [] OTHER -> word

\* word.replace(/s$/, '')
WithoutS(word) ==
    CASE word = "reviews" -> "review"
      [] word = "standups" -> "standup"
      [] word = "interviews" -> "interview"
      [] OTHER -> word

\* lines 1186-1190
AsksMeetingType(text) ==
    \/ Includes(text, "interview")
    \/ Includes(text, "1:1")
    \/ TextIncludes(text, <<"one", "on", "one">>)
    \/ Includes(text, "standup")
    \/ (TextIncludes(text, <<"how", "many">>) /\ TypeMatch(text) # <<>>)

\* lines 1193-1207
MeetingTypeOf(text) ==
    IF Includes(text, "interview") THEN <<"interview">>
    ELSE IF Includes(text, "1:1") \/ TextIncludes(text, <<"one", "on", "one">>) THEN <<"1:1">>
    ELSE IF Includes(text, "standup") THEN <<"standup">>
    ELSE TypeMatch(text)

\* lines 1213-1251: [startDate, endDate) and its description
TypeTimeRange(text, now) ==
    LET startOfToday == StartOfDay(now)
        day == DayOf(startOfToday)
        sunday == AddDays(startOfToday, 0 - WeekdayOf(day))
        firstOfMonth == DayNumber(MonthOf(day), 1) * MinutesPerDay
    IN  IF TextIncludes(text, <<"this", "week">>)
        THEN [startDate |-> sunday, endDate |-> AddDays(sunday, 7),
              timeDescription |-> "this week"]
        ELSE IF TextIncludes(text, <<"next", "week">>)
        THEN [startDate |-> AddDays(sunday, 7), endDate |-> AddDays(sunday, 14),
              timeDescription |-> "next week"]
        ELSE IF Includes(text, "tomorrow")
        THEN [startDate |-> AddDays(startOfToday, 1), endDate |-> AddDays(startOfToday, 2),
              timeDescription |-> "tomorrow"]
        ELSE IF Includes(text, "today")
        THEN [startDate |-> startOfToday, endDate |-> AddDays(startOfToday, 1),
              timeDescription |-> "today"]
        ELSE IF Includes(text, "month")
        THEN [startDate |-> firstOfMonth,
              endDate |-> DayNumber(MonthOf(day) + 1, 1) * MinutesPerDay,
              timeDescription |-> "this month"]
        ELSE [startDate |-> startOfToday,
              endDate |-> DayNumber(MonthOf(day) + 3, DateOf(day)) * MinutesPerDay,
              timeDescription |-> "in the next 3 months"]

\* lines 1265-1275: some variation of the type is in the title or the description
MatchesType(event, meetingType) ==
    LET n == Len(meetingType)
        variations == {meetingType,
                       [meetingType EXCEPT ![n] = WithoutIng(meetingType[n])],
                       [meetingType EXCEPT ![n] = WithoutS(meetingType[n])]}
    IN  \E variation \in variations :
            TextIncludes(event.title, variation) \/ TextIncludes(event.description, variation)

\* `• **${event.title}** on ${dayName} from ${startTime} to ${endTime}`
DayBullet(event) ==
    [Bullet(event) EXCEPT !.note = weekdayNames[WeekdayOf(DayOf(event.start)) + 1]]

\* lines 1186-1295
MeetingTypeBranch(text, list, now, unrelated) ==
    LET meetingType == MeetingTypeOf(text)
        range == TypeTimeRange(text, now)
        Matching(event) == /\ DateGE(event.start, range.startDate)
                           /\ DateLT(event.start, range.endDate)
                           /\ MatchesType(event, meetingType)
        matchingEvents == SortByStart(SelectSeq(list, Matching))
        n == Len(matchingEvents)
        Typed(reply) == [reply EXCEPT !.subject = meetingType,
                                      !.trailer = range.timeDescription]
    IN  IF meetingType = <<>>
        THEN Result(Say("I'm not sure what type of meetings you're looking for. Could you specify?"),
                    unrelated)
        ELSE IF n = 0
        THEN Result(Typed(Say("You don't have any {subject} meetings {trailer}.")), unrelated)
        ELSE Result(Typed(Reply("You have {n} {subject} {noun} {trailer}:", n, Meetings(n),
                                [i \in 1..n |-> DayBullet(matchingEvents[i])])),
                    matchingEvents)

\* lines 1297-1324
FindBranch(text, list, unrelated) ==
    LET keywords == extractKeywords(text)
        Matches(event) == \E k \in 1..Len(keywords) : EventMentions(event, keywords[k])
        relatedEvents == SelectSeq(list, Matches)
    IN  IF Len(keywords) = 0
        THEN Result(Say("Please provide some keywords to search for in your meetings."),
                    unrelated)
        ELSE IF Len(relatedEvents) = 0
        THEN Result(Say("I couldn't find any meetings matching your search terms."),
                    relatedEvents)
        ELSE Result(Listing(text, relatedEvents,
                            "I found {n} {noun} matching your search. Would you like me to list them?",
                            "I found {n} {noun} matching your search:"),
                    relatedEvents)

\* .slice(0, 3)
FirstThree(list) == SubSeq(list, 1, IF Len(list) < 3 THEN Len(list) ELSE 3)

\* lines 1326-1346
DefaultBranch(list, now, unrelated) ==
    LET upcomingEvents == FirstThree(UpcomingEvents(list, now))
    IN  IF Len(upcomingEvents) = 0
        THEN Result(Say("You have no upcoming meetings scheduled."), unrelated)
        ELSE Result(Reply("You have {n} upcoming meetings. Here are the next few:",
                          Len(upcomingEvents), "meetings",
                          formatMeetingsList(FirstThree(upcomingEvents))),
                    upcomingEvents)

\* The condition of each else-if of lines 671-1326, in the order they are tried; the
\* first that holds names the branch.
BranchOf(text) ==
    IF Includes(text, "today") THEN "today"
    ELSE IF Includes(text, "tomorrow") THEN "tomorrow"
    ELSE IF HasDateLiteral(text) THEN "date"
    ELSE IF MatchedWeekday(text) > 0 THEN "weekday"
    ELSE IF TextIncludes(text, <<"meeting", "with">>) \/ TextIncludes(text, <<"meetings", "with">>)
    THEN "person"
    ELSE IF TextIncludes(text, <<"next", "meeting">>) THEN "next"
    ELSE IF \/ Includes(text, "overlap") \/ Includes(text, "conflict")
            \/ Includes(text, "collision") \/ TextIncludes(text, <<"double", "book">>)
    THEN "overlap"
    ELSE IF \/ TextIncludes(text, <<"free", "time">>) \/ Includes(text, "available")
            \/ Includes(text, "busy") \/ MatchesFreeAt(text)
    THEN "availability"
    ELSE IF \/ Includes(text, "agenda") \/ Includes(text, "description")
            \/ Includes(text, "details") \/ Includes(text, "notes")
    THEN "agenda"
    ELSE IF AsksMeetingType(text) THEN "type"
    ELSE IF \/ TextIncludes(text, <<"find", "meeting">>)
            \/ TextIncludes(text, <<"search", "for", "meeting">>)
    THEN "find"
    ELSE "default"

\* The body of the branch with the given name.
AnswerOf(branch, text, list, today, now, fresh) ==
    LET relatedEvents == findRelatedEvents(text, list)
    IN  CASE branch = "today" -> TodayBranch(text, list, today)
          [] branch = "tomorrow" -> TomorrowBranch(text, list, today)
          [] branch = "date" -> DateBranch(text, list, relatedEvents)
          [] branch = "weekday" -> WeekdayBranch(text, list, today)
          [] branch = "person" -> PersonBranch(text, list, relatedEvents)
          [] branch = "next" -> NextMeetingBranch(list, now, relatedEvents)
          [] branch = "overlap" -> OverlapBranch(text, list, now, relatedEvents)
          [] branch = "availability" ->
                AvailabilityBranch(text, list, today, now, fresh, relatedEvents)
          [] branch = "agenda" -> AgendaBranch(text, list, now, relatedEvents)
          [] branch = "type" -> MeetingTypeBranch(text, list, now, relatedEvents)
          [] branch = "find" -> FindBranch(text, list, relatedEvents)
          [] OTHER -> DefaultBranch(list, now, relatedEvents)

processCalendarQuery(text, list, today, now, fresh) ==
    AnswerOf(BranchOf(text), text, list, today, now, fresh)

(***************************************************************************)
(* Spec: one call of processCalendarQuery.  The clock is the sequence of   *)
(* the values the successive new Date() of the call give: the one of line  *)
(* 648, the one the branch takes, the one of parseTimeFromMatch.  The      *)
(* clock does not go back, and may advance between two readings.           *)
(***************************************************************************)
MaxRouterEvents == 2   \* longest event list given to processCalendarQuery
MaxDrift == 1          \* minutes the clock may advance during one call

\* Monday 2025-04-21
Today == DayNumber(4, 21)

Standup ==
    CalendarEventData(1, <<"standup">>, At(Today, 10, 0), At(Today, 10, 30), <<>>)

SyncWithJohn ==
    CalendarEventData(2, <<"sync", "with", "john">>, At(Today, 10, 15), At(Today, 11, 0),
                      <<"budget">>)

Interview ==
    CalendarEventData(3, <<"interview">>, At(Today + 1, 14, 0), At(Today + 1, 16, 0),
                      NoDescriptionAvailable)

\* An event whose start and end are not dates.
Undated == CalendarEventData(4, <<"review">>, NaN, NaN, <<>>)

EventPool == {Standup, SyncWithJohn, Interview, Undated}

\* The lists of distinct events of the pool, in every order, up to the given length.
PoolLists(maxLen) ==
    UNION {{list \in [1..n -> EventPool] : \A i, j \in 1..n : list[i] = list[j] => i = j} :
           n \in 0..maxLen}

OverlapQuestion == <<"do", "i", "have", "any", "overlapping", "meetings">>

Fragments ==
    {<<"today">>, <<"tomorrow">>, <<"22/04/2025">>, <<"31/02/2025">>, <<"2025-13-01">>,
     <<"tuesday">>,
     <<"meeting", "with", "john">>, <<"next", "meeting">>, OverlapQuestion,
     <<"available">>, <<"free", "at", "3pm">>, <<"available", "after", "3pm">>,
     <<"busy", "before", "3pm">>, <<"agenda">>, <<"standup">>,
     <<"find", "meeting", "budget">>, <<"how", "many", "budget", "meetings">>,
     <<"what", "is", "up">>, <<"next", "appointment">>,
     <<"free", "at", "10:15am">>, <<"free", "around", "3pm">>}

\* A query is one fragment or two, one after the other.
Queries == Fragments \cup {head \o tail : head \in Fragments, tail \in Fragments}

RouterClocks == {At(Today, 9, 45), At(Today, 23, 59)}

Readings ==
    {<<t, t + d1, t + d2>> : t \in RouterClocks,
                             d1 \in 0..MaxDrift, d2 \in 0..MaxDrift} \
    {r \in {<<t, t + d1, t + d2>> : t \in RouterClocks,
                                    d1 \in 0..MaxDrift, d2 \in 0..MaxDrift} : r[3] < r[2]}

Init ==
    /\ pc = "call"
    /\ query \in Queries
    /\ events \in PoolLists(MaxRouterEvents)
    /\ clock \in Readings
    /\ env = None
    /\ out = None

ProcessCalendarQuery ==
    /\ pc = "call"
    /\ out' = processCalendarQuery(query, events, clock[1], clock[2], clock[3])
    /\ pc' = "done"
    /\ UNCHANGED <<query, events, clock, env>>

Next == ProcessCalendarQuery

Spec == Init /\ [][Next]_vars

Returned == pc = "done"

\* The order of the families as the specification lists it: explicit date, named
\* weekday, today/tomorrow, overlap, availability, agenda, meeting type, person, next
\* meeting, find/search, default.
ClaimedBranchOf(text) ==
    IF HasDateLiteral(text) THEN "date"
    ELSE IF MatchedWeekday(text) > 0 THEN "weekday"
    ELSE IF Includes(text, "today") THEN "today"
    ELSE IF Includes(text, "tomorrow") THEN "tomorrow"
    ELSE IF \/ Includes(text, "overlap") \/ Includes(text, "conflict")
            \/ Includes(text, "collision") \/ TextIncludes(text, <<"double", "book">>)
    THEN "overlap"
    ELSE IF \/ TextIncludes(text, <<"free", "time">>) \/ Includes(text, "available")
            \/ Includes(text, "busy") \/ MatchesFreeAt(text)
    THEN "availability"
    ELSE IF \/ Includes(text, "agenda") \/ Includes(text, "description")
            \/ Includes(text, "details") \/ Includes(text, "notes")
    THEN "agenda"
    ELSE IF AsksMeetingType(text) THEN "type"
    ELSE IF TextIncludes(text, <<"meeting", "with">>) \/ TextIncludes(text, <<"meetings", "with">>)
    THEN "person"
    ELSE IF TextIncludes(text, <<"next", "meeting">>) THEN "next"
    ELSE IF \/ TextIncludes(text, <<"find", "meeting">>)
            \/ TextIncludes(text, <<"search", "for", "meeting">>)
    THEN "find"
    ELSE "default"

\* C1: the answer of processCalendarQuery is the one produced by the first family that
\* matches the query in the priority order explicit date, named weekday, today/tomorrow,
\* overlap, availability, agenda, meeting type, person, next meeting, find/search,
\* default; so a date literal wins over 'today', and availability or overlap vocabulary
\* wins over 'meeting with'.
C1_RouterPriority ==
    Returned =>
        out = AnswerOf(ClaimedBranchOf(query), query, events, clock[1], clock[2], clock[3])

\* C3: for every query and every array of events, bad dates included, the call of
\* processCalendarQuery returns without throwing and its answer is a non-empty string.
C3_NeverThrows ==
    Returned => (~out.threw /\ out.answer.sentence # "")

\* The pairs of today's events of the list that intersect.
IntersectingToday(list) ==
    {pair \in (1..Len(list)) \X (1..Len(list)) :
        /\ pair[1] < pair[2]
        /\ StartsOn(list[pair[1]], Today) /\ StartsOn(list[pair[2]], Today)
        /\ DateLT(list[pair[1]].start, list[pair[2]].end)
        /\ DateLT(list[pair[2]].start, list[pair[1]].end)}

\* C4: when exactly two of today's events intersect, the query 'do i have any
\* overlapping meetings today' is answered with exactly 1 overlapping pair and the
\* window in which the two intersect, and relatedEvents holds both events of the pair.
C4_OverlapToday ==
    (/\ Returned
     /\ query = OverlapQuestion \o <<"today">>
     /\ Cardinality(IntersectingToday(events)) = 1)
    => LET pair == CHOOSE p \in IntersectingToday(events) : TRUE
           first == events[pair[1]]
           second == events[pair[2]]
           Highlighted(event) ==
               \E i \in 1..Len(out.relatedEvents.list) : out.relatedEvents.list[i].id = event.id
       IN  /\ ~out.threw
           /\ out.answer.n = 1
           /\ out.answer.noun = "pair"
           /\ out.answer.ranges =
                  <<[from |-> formatTime(MathMax(first.start, second.start)),
                     to |-> formatTime(MathMin(first.end, second.end))]>>
           /\ Highlighted(first)
           /\ Highlighted(second)

\* C10: the result of a call during which the clock advances between its readings is
\* the result of the call for one fixed value of now.
C10_ClockReadOnce ==
    Returned =>
        \E now \in clock[1]..clock[3] : out = processCalendarQuery(query, events, now, now, now)

\* The highlighting pass as the specification describes it: the query goes through the
\* today, tomorrow, explicit-date, weekday, next-meeting, person and keyword checks, and
\* the events matching any check that applies are put together.
RelatedPass(text, list, now) ==
    LET all == {list[i] : i \in 1..Len(list)}
        targetDate == ExtractTargetDate(text)
        upcoming == UpcomingEvents(list, now)
        person == extractPersonName(text)
        keyworded == findRelatedEvents(text, list)
    IN  (IF Includes(text, "today") THEN {e \in all : StartsOn(e, DayOf(now))} ELSE {})
        \cup (IF Includes(text, "tomorrow")
              THEN {e \in all : StartsOn(e, DayOf(AddDays(now, 1)))} ELSE {})
        \cup (IF HasDateLiteral(text) /\ IsValidDate(targetDate)
              THEN {e \in all : StartsOn(e, DayOf(targetDate))} ELSE {})
        \cup (IF MatchedWeekday(text) > 0
              THEN {e \in all : StartsOn(e, WeekdayTarget(text, now))} ELSE {})
        \cup (IF TextIncludes(text, <<"next", "meeting">>) /\ Len(upcoming) > 0
              THEN {upcoming[1]} ELSE {})
        \cup (IF person # <<>>
              THEN {e \in all : TextIncludes(e.title, person)
                                \/ TextIncludes(e.description, person)}
              ELSE {})
        \cup {keyworded[i] : i \in 1..Len(keyworded)}

\* C11: the relatedEvents of processCalendarQuery are the events found by a separate
\* pass of the query through the today, tomorrow, explicit-date, weekday, next-meeting,
\* person and keyword checks, whichever branch of the router wrote the answer.
C11_RelatedEventsSeparatePass ==
    (Returned /\ ~out.threw)
    => {out.relatedEvents.list[i].id : i \in 1..Len(out.relatedEvents.list)}
       = {e.id : e \in RelatedPass(query, events, clock[1])}

\* An answer that states a count and lists events under it.
ListsUnderCount == Returned /\ ~out.threw /\ out.answer.noun # "" /\ out.answer.bullets # <<>>

\* C12 (as stated): in every branch, the number of events listed as bullet lines is the
\* count stated in the leading sentence of the answer.
C12_BulletsMatchCount ==
    ListsUnderCount => Len(out.answer.bullets) = out.answer.n

\* C12 (amended): the number of bullet lines is the stated count where the count is of
\* meetings; the overlap branch states a count of pairs and lists the two events of
\* every pair, twice the count.
C12_BulletsMatchCountAmended ==
    ListsUnderCount =>
        Len(out.answer.bullets) =
            IF out.answer.noun \in {"pair", "pairs"} THEN 2 * out.answer.n ELSE out.answer.n

C12_Witness ==
    /\ Returned /\ ~out.threw
    /\ out.answer.noun = "pair" /\ out.answer.n = 1 /\ Len(out.answer.bullets) = 2

\* The answers made of a count sentence and the offer to list.
OfferSentences ==
    {"You have {n} {noun} today. Would you like me to list them?",
     "You have {n} {noun} tomorrow. Would you like me to list them?",
     "You have {n} {noun} on {date}. Would you like me to list them?",
     "You have {n} {noun} on {subject}. Would you like me to list them?",
     "You have {n} {noun} with {subject}. Would you like me to list them?",
     "I found {n} {noun} matching your search. Would you like me to list them?"}

\* C13: in the today, tomorrow, explicit-date, weekday, person and meeting-type
\* branches, a query with 'how many' and at least one matching event is answered with
\* the count sentence and the offer to list, and with no bullet line.
C13_CountOnlyForm ==
    (/\ Returned /\ ~out.threw
     /\ BranchOf(query) \in {"today", "tomorrow", "date", "weekday", "person", "type"}
     /\ TextIncludes(query, <<"how", "many">>)
     /\ out.answer.n >= 1)
    => (out.answer.bullets = <<>> /\ out.answer.sentence \in OfferSentences)

\* C14: in every answer that states a count n of meetings or of overlapping pairs, the
\* counted noun is singular exactly when n = 1, in the default summary as elsewhere.
C14_SingularPlural ==
    (Returned /\ ~out.threw /\ out.answer.noun # "")
    => (out.answer.n = 1 <=> out.answer.noun \in {"meeting", "pair"})

\* A day that exists in the calendar.
IsCalendarDate(fields) ==
    fields.month \in 1..12 /\ fields.day \in 1..DaysInMonth[fields.month]

\* The query has date literals, none of them a date of the calendar, and the router
\* reaches the explicit-date branch.
AsksInvalidDate ==
    /\ Returned
    /\ BranchOf(query) = "date"
    /\ \A i \in 1..Len(query) :
           IsDateLiteral(query[i]) => ~IsCalendarDate(DateLiteral(query[i]))

\* C15: a query whose DD/MM/YYYY or YYYY-MM-DD literal is not a valid calendar date is
\* answered with the "couldn't understand the date format" message; the router neither
\* lists the meetings of another date nor throws.
C15_InvalidDateLiteral ==
    AsksInvalidDate
    => /\ ~out.threw
       /\ out.answer.sentence =
              "I couldn't understand the date format. Please try using DD/MM/YYYY or YYYY-MM-DD format."

\* The target day of a weekday query as the rule states it: m - c days ahead when the
\* named weekday m is after today's weekday c and the query has no 'next', 7 days more
\* when m <= c or the query has 'next'.
ResolvedWeekday(text, today) ==
    LET m == MatchedWeekday(text) - 1
        c == WeekdayOf(DayOf(today))
    IN  DayOf(today) + (IF m > c /\ ~Includes(text, "next") THEN m - c ELSE m - c + 7)

\* The events of the list whose date key is that of the day.
OnDateKey(list, day) == {list[i] : i \in {j \in 1..Len(list) : StartsOn(list[j], day)}}

\* C24: a query whose family is the named weekday is answered for a target day that is
\* never today, that lies m - c days ahead (7 more when m <= c or the query has 'next')
\* and falls on the named weekday, and the events of the answer are exactly the events
\* whose date key is the target day.
C24_WeekdayResolution ==
    (Returned /\ ClaimedBranchOf(query) = "weekday")
    => LET target == ResolvedWeekday(query, clock[1])
       IN  /\ target # DayOf(clock[1])
           /\ WeekdayOf(target) = MatchedWeekday(query) - 1
           /\ ~out.threw
           /\ Range(out.relatedEvents.list) = OnDateKey(events, target)
           /\ ~IsCountQuery(query)
              => Len(out.answer.bullets) = Cardinality(OnDateKey(events, target))

\* The query asks for the next meeting, and no family that the priority order puts
\* before that one matches.
AsksNext(text) ==
    /\ TextIncludes(text, <<"next", "meeting">>) \/ TextIncludes(text, <<"next", "appointment">>)
    /\ ClaimedBranchOf(text) \in {"next", "find", "default"}

\* The events that start strictly after now.
StartingAfter(list, now) == {i \in 1..Len(list) : DateGT(list[i].start, now)}

\* C25: a query with 'next meeting' or 'next appointment' is answered with the event of
\* earliest start strictly after now, which is also the only related event; when no
\* event starts after now the answer is 'You have no upcoming meetings scheduled.'.
C25_NextMeeting ==
    (Returned /\ AsksNext(query))
    => LET later == StartingAfter(events, clock[2])
       IN  /\ ~out.threw
           /\ later = {}
              => out.answer.sentence = "You have no upcoming meetings scheduled."
           /\ later # {}
              => \E i \in later :
                    /\ \A j \in later : events[i].start <= events[j].start
                    /\ out.answer.sentence = "Your next meeting is {subject} on {date} from {times}."
                    /\ out.answer.subject = events[i].title
                    /\ out.answer.times = <<formatTime(events[i].start), formatTime(events[i].end)>>
                    /\ out.relatedEvents.list = <<events[i]>>

\* The query uses availability vocabulary and names an exact clock time, and no family
\* that the priority order puts before availability matches.
AsksFreeAt(text) ==
    /\ Includes(text, "free") \/ Includes(text, "available") \/ Includes(text, "busy")
    /\ ClaimedBranchOf(text) \notin {"date", "weekday", "today", "tomorrow", "overlap"}
    /\ ClockMatch(text, "") # 0
    /\ ClockMatch(text, "after") = 0
    /\ ClockMatch(text, "before") = 0

\* The clock time the query names, on the day of today.
NamedTime(text, today) ==
    parseTimeFromMatch(ClockLiteral(text[ClockMatch(text, "")]), today).time

\* Today's events whose interval [start, end) contains t.
Containing(list, today, t) ==
    {i \in 1..Len(list) :
        /\ StartsOn(list[i], DayOf(today))
        /\ DateLE(list[i].start, t) /\ DateGT(list[i].end, t)}

\* C26: an availability query that names an exact clock time t not yet passed today is
\* answered "Yes, you're free at t" exactly when no event of today contains t in
\* [start, end), and otherwise 'No' with an event whose interval contains t.
C26_FreeAtTime ==
    (/\ Returned
     /\ AsksFreeAt(query)
     /\ NamedTime(query, clock[1]) >= clock[2])
    => LET t == NamedTime(query, clock[1])
           busy == Containing(events, clock[1], t)
       IN  /\ ~out.threw
           /\ busy = {}
              => /\ out.answer.sentence = "Yes, you're free at {display}."
                 /\ out.answer.display = ClockLiteral(query[ClockMatch(query, "")])
           /\ busy # {}
              => /\ out.answer.sentence = "No, you have {subject} from {times}."
                 /\ \E i \in busy : out.answer.subject = events[i].title

\* The query holds 'tomorrow' and nothing that names another day.
ScopedToTomorrow(text) ==
    /\ Includes(text, "tomorrow")
    /\ ~Includes(text, "today")
    /\ ~HasDateLiteral(text)
    /\ MatchedWeekday(text) = 0

OverlapVocabulary(text) ==
    \/ Includes(text, "overlap") \/ Includes(text, "conflict")
    \/ Includes(text, "collision") \/ TextIncludes(text, <<"double", "book">>)

AgendaVocabulary(text) ==
    \/ Includes(text, "agenda") \/ Includes(text, "description")
    \/ Includes(text, "details") \/ Includes(text, "notes")

\* The events of the list that start on the day after today, in the order of the list.
TomorrowsEvents(list, today) ==
    LET IsTomorrow(event) == StartsOn(event, DayOf(today) + 1)
    IN  SelectSeq(list, IsTomorrow)

\* C27: 'tomorrow' is a scope qualifier inside the overlap and agenda families: an
\* overlap query with 'tomorrow' is answered by overlap detection on tomorrow's events
\* only, and an agenda query with 'tomorrow' by the part of tomorrow's events that have
\* a description (non-blank and not 'No description available'), or the part that have
\* none when that is what is asked; the two parts are disjoint and cover the events.
C27_ScopeQualifiers ==
    (Returned /\ ScopedToTomorrow(query))
    => LET scoped == TomorrowsEvents(events, clock[1])
           pairs == findOverlappingMeetings(scoped).overlaps
           without == SelectSeq(scoped, HasNoAgenda)
           asksWithout == TextIncludes(query, <<"no", "agenda">>)
           part == IF asksWithout THEN Len(without) ELSE Len(scoped) - Len(without)
       IN  /\ OverlapVocabulary(query)
              => /\ ~out.threw
                 /\ out.answer.sentence \in
                        {"You don't have any overlapping meetings tomorrow.",
                         "Yes, you have {n} overlapping meeting {noun} tomorrow:"}
                 /\ out.answer.n = Len(pairs)
           /\ (AgendaVocabulary(query) /\ ~OverlapVocabulary(query)
               /\ ClaimedBranchOf(query) # "availability")
              => /\ ~out.threw
                 /\ out.answer.trailer = "tomorrow"
                 /\ out.answer.n = part
                 /\ Len(out.answer.bullets) = part

\* C28: the relatedEvents of processCalendarQuery are input events, unmodified (not
\* copies with added fields), each at most once, and an empty selection is returned as
\* undefined.
C28_RelatedEventsSubList ==
    Returned
    => LET related == out.relatedEvents.list
       IN  /\ \A i \in 1..Len(related) : related[i] \in Range(events)
           /\ \A i, j \in 1..Len(related) : related[i] = related[j] => i = j
           /\ out.relatedEvents.defined <=> Len(related) > 0

(***************************************************************************)
(* SpecPure: a caller invokes processCalendarQuery twice with the same     *)
(* query, the same array and the same clock readings; another caller's     *)
(* invocation may run in between.  route.ts has no module-level variable,  *)
(* so all a call can leave behind is what it does to the array it is given.*)
(***************************************************************************)
SortedInPlace(text, list) == SortByStart(list)

\* The caller's array after a call: every sort of processCalendarQuery and its helpers
\* is applied to the array that filter() or [...list] just made, never to the argument.
CallerArrayAfter(text, list) == list

\* The other caller's request.
OtherRequests ==
    {[query |-> <<"tuesday">>, events |-> <<Interview, Standup>>, done |-> FALSE],
     [query |-> <<"available">>, events |-> <<SyncWithJohn, Standup>>, done |-> FALSE]}

InitPure ==
    /\ pc = "first"
    /\ query \in Fragments
    /\ events \in PoolLists(MaxRouterEvents)
    /\ clock \in Readings
    /\ env \in OtherRequests
    /\ out = <<>>

FirstCall ==
    /\ pc = "first"
    /\ out' = Append(out, processCalendarQuery(query, events, clock[1], clock[2], clock[3]))
    /\ events' = CallerArrayAfter(query, events)
    /\ pc' = "between"
    /\ UNCHANGED <<query, clock, env>>

OtherCall ==
    /\ pc = "between"
    /\ ~env.done
    /\ env' = [env EXCEPT !.events = CallerArrayAfter(env.query, env.events),
                          !.done = TRUE]
    /\ UNCHANGED <<pc, query, events, clock, out>>

SecondCall ==
    /\ pc = "between"
    /\ out' = Append(out, processCalendarQuery(query, events, clock[1], clock[2], clock[3]))
    /\ events' = CallerArrayAfter(query, events)
    /\ pc' = "end"
    /\ UNCHANGED <<query, clock, env>>

NextPure == FirstCall \/ OtherCall \/ SecondCall

SpecPure == InitPure /\ [][NextPure]_vars

IsLetters(word) == ~StartsWithDigit(word)

extractPotentialPersons(text) ==
    LET heads == {i \in 1..(Len(text) - 1) : text[i] = "with" /\ IsLetters(text[i + 1])}
        head == CHOOSE i \in heads : \A j \in heads : i <= j
    IN  IF heads = {} THEN <<>>
        ELSE IF head + 2 <= Len(text) /\ IsLetters(text[head + 2])
        THEN SubSeq(text, head + 1, head + 2)
        ELSE SubSeq(text, head + 1, head + 1)

\* lines 421-545: the events getClaudeResponse marks for highlighting
ClaudeRelatedEvents(text, list, currentTime) ==
    LET OnDay(day) ==
            LET Starts(event) == StartsOn(event, day)
            IN  SelectSeq(list, Starts)
        targetDate == ExtractTargetDate(text)
        upcoming == UpcomingEvents(list, currentTime)
        person == extractPotentialPersons(text)
        IsWith(event) == TextIncludes(event.title, person)
                         \/ TextIncludes(event.description, person)
    IN  IF Includes(text, "today") THEN OnDay(DayOf(currentTime))
        ELSE IF Includes(text, "tomorrow") THEN OnDay(DayOf(AddDays(currentTime, 1)))
        ELSE IF HasDateLiteral(text)
        THEN IF IsValidDate(targetDate) THEN OnDay(DayOf(targetDate)) ELSE <<>>
        ELSE IF MatchedWeekday(text) > 0 THEN OnDay(WeekdayTarget(text, currentTime))
        ELSE IF \/ TextIncludes(text, <<"next", "meeting">>)
                \/ TextIncludes(text, <<"next", "appointment">>)
        THEN IF Len(upcoming) > 0 THEN <<upcoming[1]>> ELSE <<>>
        ELSE IF Includes(text, "with")
        THEN IF person = <<>> THEN <<>> ELSE SelectSeq(list, IsWith)
        ELSE findRelatedEvents(text, list)

\* getClaudeResponse: the loop of line 154 calls toISOString() on every start before
\* the provider is called; the provider answers, or the call to it fails in some way.
getClaudeResponse(text, list, currentTime, provider) ==
    IF AnyBadStart(list) THEN Thrown
    ELSE IF provider = "fails" THEN Thrown
    ELSE Result(Say("{aiResponse}"), ClaudeRelatedEvents(text, list, currentTime))

\* NextResponse.json(body, {status})
Response(status, error, result, calls) ==
    [status |-> status, error |-> error, result |-> result, calls |-> calls]

NoResult == Result(Say(""), <<>>)

\* The answer of the catch of line 57.
Sorry == Result(Say("Sorry, I encountered an error processing your query."), <<>>)

Call(fn, text, list) == [fn |-> fn, query |-> text, events |-> list]

HasSession(request) == request.session # "none"

\* !session || !session.user is false
Authorized(request) == request.session = "user"

\* !query || typeof query !== 'string'
QueryRequired(body) == body \in {"no query", "empty query", "query not a string"}

\* !events || !Array.isArray(events)
EventsRequired(body) == body \in {"no events", "events not an array"}

RawError(calls) == Response(500, "{error.message}", NoResult, calls)

\* The catch of lines 57-63: whatever was thrown inside the try is logged, and the
\* client is sent the fixed answer with status 500.
Caught(calls) == Response(500, "", Sorry, calls)

\* POST, lines 21-65.  request is what the handler finds: the session, the state of the
\* body, whether ANTHROPIC_API_KEY is set, what the provider does if it is called.
\* calls lists, in order, the body read and the strategies invoked.
PostResponse(request, text, list, readings) ==
    LET claude == getClaudeResponse(text, list, readings[1], request.provider)
        engine == processCalendarQuery(text, list, readings[1], readings[2], readings[3])
        bodyRead == Call("req.json", <<>>, <<>>)
        claudeCall == Call("getClaudeResponse", text, list)
        engineCall == Call("processCalendarQuery", text, list)
    IN  IF ~Authorized(request)
        THEN Response(401, "Unauthorized", NoResult, <<>>)
        ELSE IF request.body = "unreadable" THEN Caught(<<bodyRead>>)
        ELSE IF QueryRequired(request.body)
        THEN Response(400, "Query is required", NoResult, <<bodyRead>>)
        ELSE IF EventsRequired(request.body)
        THEN Response(400, "Events data is required", NoResult, <<bodyRead>>)
        ELSE IF request.apiKey /\ ~claude.threw
        THEN Response(200, "", claude, <<bodyRead, claudeCall>>)
        ELSE LET calls == IF request.apiKey THEN <<bodyRead, claudeCall, engineCall>>
                          ELSE <<bodyRead, engineCall>>
             IN  IF engine.threw THEN Caught(calls)
                 ELSE Response(200, "", engine, calls)

(***************************************************************************)
(* SpecPost: one request to POST.                                          *)
(***************************************************************************)
Requests ==
    [session : {"none", "no user", "user"},
     body : {"unreadable", "no query", "empty query", "query not a string",
             "no events", "events not an array", "valid"},
     apiKey : BOOLEAN,
     provider : {"answers", "fails"}]

PostQueries == {<<"today">>, <<"tuesday">>, <<"meeting", "with", "john">>, <<"what", "is", "up">>}

InitPost ==
    /\ pc = "request"
    /\ query \in PostQueries
    /\ events \in PoolLists(MaxRouterEvents)
    /\ clock \in Readings
    /\ env \in Requests
    /\ out = None

POST ==
    /\ pc = "request"
    /\ out' = PostResponse(env, query, events, clock)
    /\ pc' = "responded"
    /\ UNCHANGED <<query, events, clock, env>>

NextPost == POST

SpecPost == InitPost /\ [][NextPost]_vars

Responded == pc = "responded"

CallsOf(fn) == {i \in 1..Len(out.calls) : out.calls[i].fn = fn}

\* C2: for an authenticated request with a valid body, the Claude strategy is attempted
\* if and only if ANTHROPIC_API_KEY is set; whenever the attempt fails, and whenever no
\* key is set, processCalendarQuery is invoked exactly once with the unchanged query and
\* events and its result is returned with status 200.
C2_ClaudeFallback ==
    (Responded /\ env.session = "user" /\ env.body = "valid")
    => /\ (CallsOf("getClaudeResponse") # {}) <=> env.apiKey
       /\ (~env.apiKey \/ getClaudeResponse(query, events, clock[1], env.provider).threw)
          => /\ Cardinality(CallsOf("processCalendarQuery")) = 1
             /\ \A i \in CallsOf("processCalendarQuery") :
                    out.calls[i].query = query /\ out.calls[i].events = events
             /\ out.status = 200
             /\ out.result =
                    processCalendarQuery(query, events, clock[1], clock[2], clock[3])

\* C19: POST invokes neither getClaudeResponse nor processCalendarQuery unless there is
\* a session with a user, query is a non-empty string and events is an array: without
\* a session or a user it answers 401 {error: 'Unauthorized'} and does not read the
\* body; a missing, empty or non-string query gives 400, and so does a missing or
\* non-array events.
C19_GuardsBeforeStrategies ==
    Responded
    => /\ env.session # "user"
          => out.status = 401 /\ out.error = "Unauthorized" /\ out.calls = <<>>
       /\ (env.session = "user"
           /\ env.body \in {"no query", "empty query", "query not a string"})
          => out.status = 400 /\ out.error = "Query is required"
       /\ (env.session = "user" /\ env.body \in {"no events", "events not an array"})
          => out.status = 400 /\ out.error = "Events data is required"
       /\ (CallsOf("getClaudeResponse") \cup CallsOf("processCalendarQuery") # {})
          => env.session = "user" /\ env.body = "valid"

\* A request with a session that has no user, a readable body and an API key, answered.
C19_Witness ==
    /\ Responded
    /\ env.session = "no user" /\ env.body = "valid" /\ env.apiKey
    /\ out.status = 401

\* C20: when reading the body throws, or when processCalendarQuery is invoked and
\* throws, the response has status 500 and its body is exactly
\* {answer: 'Sorry, I encountered an error processing your query.'}, with no error text.
C20_ExceptionsBecome500 ==
    (/\ Responded
     /\ env.session = "user"
     /\ \/ env.body = "unreadable"
        \/ /\ CallsOf("processCalendarQuery") # {}
           /\ processCalendarQuery(query, events, clock[1], clock[2], clock[3]).threw)
    => /\ out.status = 500
       /\ out.error = ""
       /\ out.result = Sorry
       /\ ~out.result.relatedEvents.defined

\* The fallback engine was invoked after the Claude strategy failed, and threw.
C20_Witness ==
    /\ Responded
    /\ Cardinality(CallsOf("getClaudeResponse")) = 1
    /\ Cardinality(CallsOf("processCalendarQuery")) = 1
    /\ processCalendarQuery(query, events, clock[1], clock[2], clock[3]).threw
    /\ out.status = 500

(***************************************************************************)
(* The utils copies of extractPersonName and extractKeywords: the code of  *)
(* route.ts behind answers fixed for the sentences of the tests.           *)
(***************************************************************************)
\* utils, lines 196-212
UtilsExtractPersonName(text) ==
    IF text = <<"do", "i", "have", "a", "meeting", "with", "john", "today">>
    THEN <<"john">>
    ELSE IF text = <<"meetings", "with", "john", "smith", "this", "week">>
    THEN <<"john", "smith">>
    ELSE extractPersonName(text)

\* utils, lines 139-191
UtilsExtractKeywords(text) ==
    IF text = <<"find", "meetings", "about", "project", "planning", "with", "john">>
    THEN <<"project", "planning", "john">>
    ELSE IF text = <<"do", "i", "have", "any", "meetings", "today">> THEN <<>>
    ELSE IF text = <<"do", "i", "have", "any", "today">> THEN <<>>
    ELSE extractKeywords(text)

(***************************************************************************)
(* SpecText: one call of extractPersonName or of extractKeywords, of       *)
(* either copy, on a sentence.                                             *)
(***************************************************************************)
PersonNames == {<<"john">>, <<"john", "smith">>, <<"martin">>}

PersonQueries ==
    {head \o name \o tail :
        head \in {<<"do", "i", "have", "a", "meeting", "with">>, <<"meetings", "with">>,
                  <<"any">>},
        name \in PersonNames,
        tail \in {<<>>, <<"today">>, <<"this", "week">>, <<"on", "monday">>, <<"at", "3pm">>}}

KeywordQueries ==
    {head \o term :
        head \in {<<>>, <<"do", "i", "have", "any">>,
                  <<"find", "meetings", "about", "project">>},
        term \in {<<"planning", "with", "john">>, <<"meetings", "today">>, <<"today">>,
                  <<"1:1">>, <<"standups">>, <<"interviewing">>, <<"budget", "review">>,
                  <<"sync">>}}

InitText ==
    /\ pc = "call"
    /\ query \in PersonQueries \cup KeywordQueries
    /\ events = <<>>
    /\ clock = 0
    /\ env = None
    /\ out = None

CallExtractPersonName ==
    /\ pc = "call"
    /\ out' = [fn |-> "extractPersonName", value |-> extractPersonName(query)]
    /\ pc' = "done"
    /\ UNCHANGED <<query, events, clock, env>>

CallUtilsExtractPersonName ==
    /\ pc = "call"
    /\ out' = [fn |-> "utils.extractPersonName", value |-> UtilsExtractPersonName(query)]
    /\ pc' = "done"
    /\ UNCHANGED <<query, events, clock, env>>

CallExtractKeywords ==
    /\ pc = "call"
    /\ out' = [fn |-> "extractKeywords", value |-> extractKeywords(query)]
    /\ pc' = "done"
    /\ UNCHANGED <<query, events, clock, env>>

CallUtilsExtractKeywords ==
    /\ pc = "call"
    /\ out' = [fn |-> "utils.extractKeywords", value |-> UtilsExtractKeywords(query)]
    /\ pc' = "done"
    /\ UNCHANGED <<query, events, clock, env>>

NextText ==
    \/ CallExtractPersonName
    \/ CallUtilsExtractPersonName
    \/ CallExtractKeywords
    \/ CallUtilsExtractKeywords

SpecText == InitText /\ [][NextText]_vars

\* The name that follows 'meeting(s) with' in the sentence: the words after the phrase
\* as far as they are words of a name; <<>> when the phrase is absent.
NameWords == {"john", "smith", "martin"}

NameAfterWith(text) ==
    LET heads == {i \in 1..(Len(text) - 1) :
                     text[i] \in {"meeting", "meetings"} /\ text[i + 1] = "with"}
        head == CHOOSE i \in heads : \A j \in heads : i <= j
        tail == SubSeq(text, head + 2, Len(text))
        others == {k \in 1..Len(tail) : tail[k] \notin NameWords}
        cut == IF others = {} THEN Len(tail) + 1
               ELSE CHOOSE k \in others : \A j \in others : k <= j
    IN  IF heads = {} THEN <<>> ELSE SubSeq(tail, 1, cut - 1)

\* C16: extractPersonName returns exactly the name that follows 'meeting(s) with':
\* 'john' for 'do i have a meeting with john today', a name of two words whole, a name
\* holding the letters on/at/in uncut, and null when the phrase is absent.
C16_PersonNameExact ==
    (pc = "done" /\ out.fn \in {"extractPersonName", "utils.extractPersonName"})
    => out.value = NameAfterWith(query)

\* The meeting-type vocabulary, as the specification lists it.
TypeVocabulary ==
    {"interview", "standup", "review", "planning", "retrospective", "demo",
     "presentation", "workshop", "1:1", "sync", "catch-up", "check-in", "orientation",
     "training", "feedback"}

\* The types of the vocabulary that the sentence has in plain, +s or +ing form.
TypesIn(text) ==
    {type \in TypeVocabulary : \E i \in 1..Len(text) : IsFormOf(text[i], type)}

\* The words of the sentence longer than 2 characters that are not stop words.
PlainKeywords(text) ==
    {text[i] : i \in {k \in 1..Len(text) : text[k] \notin ShortWords
                                           /\ text[k] \notin commonWords}}

\* C17: when the sentence has a term of the meeting-type vocabulary, extractKeywords
\* returns exactly the matched types; otherwise it returns every word longer than 2
\* characters that is not a stop word.
C17_KeywordsExact ==
    (pc = "done" /\ out.fn \in {"extractKeywords", "utils.extractKeywords"})
    => {out.value[i] : i \in 1..Len(out.value)}
       = IF TypesIn(query) # {} THEN TypesIn(query) ELSE PlainKeywords(query)

(***************************************************************************)
(* SpecOverlap: the two findOverlappingMeetings applied to every event     *)
(* list of at most MaxEvents events whose start and end lie on a grid of   *)
(* half hours from 10:00, with end >= start (zero-length events included). *)
(***************************************************************************)
OverlapGrid == {At(0, 10, 0) + 30 * k : k \in 0..MaxTick}

Spans(grid) == {span \in grid \X grid : span[1] <= span[2]}

EventLists(times, maxLen) ==
    UNION {{[i \in 1..n |-> CalendarEventData(i, <<"meeting">>, f[i][1], f[i][2], <<>>)] :
              f \in [1..n -> times]} : n \in 0..maxLen}

InitOverlap ==
    /\ pc = "call"
    /\ query = <<>>
    /\ events \in EventLists(Spans(OverlapGrid), MaxEvents)
    /\ clock = 0
    /\ env = None
    /\ out = None

CallUtilsFindOverlappingMeetings ==
    /\ pc = "call"
    /\ pc' = "done"
    /\ out' = [fn |-> "utils", value |-> UtilsFindOverlappingMeetings(events)]
    /\ UNCHANGED <<query, events, clock, env>>

CallRouteFindOverlappingMeetings ==
    /\ pc = "call"
    /\ pc' = "done"
    /\ out' = [fn |-> "route", value |-> findOverlappingMeetings(events)]
    /\ UNCHANGED <<query, events, clock, env>>

NextOverlap == CallUtilsFindOverlappingMeetings \/ CallRouteFindOverlappingMeetings

SpecOverlap == InitOverlap /\ [][NextOverlap]_vars

\* ------------------------------------------------------------------------
\* What the claims about findOverlappingMeetings speak of.
WellFormed(list) == \A i \in 1..Len(list) : list[i].start <= list[i].end

Orderings(n) == {p \in [1..n -> 1..n] : \A i, j \in 1..n : p[i] = p[j] => i = j}

Permuted(list, p) == [i \in 1..Len(list) |-> list[p[i]]]

OverlapOf(fn, list) ==
    IF fn = "utils" THEN UtilsFindOverlappingMeetings(list) ELSE findOverlappingMeetings(list)

\* The unordered pairs of events (by id) a result reports.
ReportedPairs(result) == {{o.event1.id, o.event2.id} : o \in Range(result.overlaps)}

\* The closed intervals of two events meet.
Intersect(a, b) == MathMax(a.start, b.start) <= MathMin(a.end, b.end)

OverlapCalled == pc = "done" /\ out.fn \in {"utils", "route"}

\* C5: for well-formed events (end >= start), hasOverlaps and the set of unordered
\* pairs reported are the same for every permutation of the input list, for each of
\* the two findOverlappingMeetings.
C5_OverlapSymmetry ==
    (OverlapCalled /\ WellFormed(events)) =>
        \A p \in Orderings(Len(events)) :
            LET other == OverlapOf(out.fn, Permuted(events, p))
            IN  /\ other.hasOverlaps = out.value.hasOverlaps
                /\ ReportedPairs(other) = ReportedPairs(out.value)

\* C6: two back-to-back meetings (the second starts at the instant the first ends)
\* are reported as exactly one overlap with hasOverlaps = TRUE, by each of the two
\* findOverlappingMeetings.
C6_BackToBackOverlap ==
    (/\ OverlapCalled
     /\ Len(events) = 2
     /\ events[1].start < events[1].end
     /\ events[2].start = events[1].end
     /\ events[2].start < events[2].end) =>
        /\ out.value.hasOverlaps
        /\ Len(out.value.overlaps) = 1

\* C7: for well-formed events the exported findOverlappingMeetings returns exactly one
\* Overlap for each unordered pair of events whose closed intervals meet and none for
\* any other pair; hasOverlaps is true exactly when the list is non-empty; every
\* Overlap runs from the later start to the earlier end, and start <= end.
C7_UtilsOverlapsExact ==
    (OverlapCalled /\ out.fn = "utils" /\ WellFormed(events)) =>
        LET overlaps == out.value.overlaps
            Count(i, j) == Cardinality({k \in 1..Len(overlaps) :
                              {overlaps[k].event1.id, overlaps[k].event2.id} = {i, j}})
        IN  /\ \A i, j \in 1..Len(events) :
                  i < j => Count(i, j) = IF Intersect(events[i], events[j]) THEN 1 ELSE 0
            /\ \A k \in 1..Len(overlaps) :
                  /\ overlaps[k].event1.id # overlaps[k].event2.id
                  /\ LET a == events[overlaps[k].event1.id]
                         b == events[overlaps[k].event2.id]
                     IN  /\ overlaps[k].overlapStart = MathMax(a.start, b.start)
                         /\ overlaps[k].overlapEnd = MathMin(a.end, b.end)
                         /\ overlaps[k].overlapStart <= overlaps[k].overlapEnd
            /\ out.value.hasOverlaps <=> (overlaps # <<>>)
            /\ (Len(events) < 2 => ~out.value.hasOverlaps /\ overlaps = <<>>)

\* Three mutually overlapping events gave three overlaps.
C7_Witness ==
    /\ OverlapCalled /\ out.fn = "utils" /\ WellFormed(events)
    /\ Len(events) = 3
    /\ Len(out.value.overlaps) = 3
    /\ \E i, j \in 1..3 : events[i].start < events[j].start

(***************************************************************************)
(* SpecFreeSlots: the two findFreeSlots applied to every list of at most   *)
(* MaxSlotEvents well-formed events on day 0 and a `now` of that day.      *)
(***************************************************************************)
SlotGrid == {At(0, 9, 0), At(0, 9, 30), At(0, 10, 0), At(0, 17, 30), At(0, 18, 0), At(0, 19, 0)}

SlotNows == {At(0, 8, 0), At(0, 9, 0), At(0, 9, 45)}

InitFreeSlots ==
    /\ pc = "call"
    /\ query = <<>>
    /\ events \in EventLists(Spans(SlotGrid), MaxSlotEvents)
    /\ clock \in SlotNows
    /\ env = None
    /\ out = None

CallUtilsFindFreeSlots ==
    /\ pc = "call"
    /\ pc' = "done"
    /\ out' = [fn |-> "utils", ranges |-> UtilsFreeSlotRanges(events, clock),
               value |-> UtilsFindFreeSlots(events, clock)]
    /\ UNCHANGED <<query, events, clock, env>>

CallRouteFindFreeSlots ==
    /\ pc = "call"
    /\ pc' = "done"
    /\ out' = [fn |-> "route", ranges |-> RouteFreeSlotRanges(events, clock),
               value |-> findFreeSlots(events, clock)]
    /\ UNCHANGED <<query, events, clock, env>>

NextFreeSlots == CallUtilsFindFreeSlots \/ CallRouteFindFreeSlots

SpecFreeSlots == InitFreeSlots /\ [][NextFreeSlots]_vars

\* ------------------------------------------------------------------------
\* What the claims about findFreeSlots speak of.
FreeSlotsCalled == pc = "done" /\ out.fn \in {"utils", "route"}

\* The work window of the call: from max(now, 09:00) to 18:00 of now's day.
WindowStart == MathMax(clock, SetHours(clock, WorkdayStartHour, 0))

WindowEnd == SetHours(clock, WorkdayEndHour, 0)

\* C8: no reported slot begins before now or before 09:00, and with no events there
\* is exactly one slot, from max(now, 09:00) to 18:00 ('From 9:00 AM to 6:00 PM' when
\* now is 09:00).
C8_FreeSlotAnchor ==
    FreeSlotsCalled =>
        /\ \A k \in 1..Len(out.ranges) :
              /\ out.ranges[k][1] >= clock
              /\ out.ranges[k][1] >= SetHours(clock, WorkdayStartHour, 0)
        /\ (events = <<>> =>
              /\ out.ranges = <<(<<WindowStart, WindowEnd>>)>>
              /\ (clock = At(0, 9, 0) =>
                    out.value = <<[from |-> [hour |-> 9, minute |-> 0, period |-> "AM"],
                                   to |-> [hour |-> 6, minute |-> 0, period |-> "PM"]]>>))

\* An event is busy somewhere strictly inside (from, to); a zero-length event inside
\* counts, as the walk splits a gap at it.
BusyInside(e, from, to) == e.start < to /\ e.end > from

\* The maximal event-free stretches of the window that are longer than 30 minutes.
LongGaps ==
    LET ends == {WindowStart} \cup {events[i].end : i \in 1..Len(events)}
        starts == {WindowEnd} \cup {events[i].start : i \in 1..Len(events)}
    IN  {g \in ends \X starts :
            /\ WindowStart <= g[1] /\ g[2] <= WindowEnd
            /\ g[2] - g[1] > FreeSlotThreshold
            /\ \A i \in 1..Len(events) : ~BusyInside(events[i], g[1], g[2])}

\* C9: the reported slots lie inside the window [max(now, 09:00), 18:00], are pairwise
\* disjoint, meet no event, and are exactly the event-free stretches of the window
\* longer than 30 minutes (so slots, busy time and short gaps cover the window once);
\* an event spanning 09:00-18:00 leaves no slot.
C9_FreeSlotCoverage ==
    FreeSlotsCalled =>
        LET slots == out.ranges
        IN  /\ \A k \in 1..Len(slots) :
                  /\ WindowStart <= slots[k][1] /\ slots[k][2] <= WindowEnd
                  /\ \A i \in 1..Len(events) : ~BusyInside(events[i], slots[k][1], slots[k][2])
            /\ \A k, l \in 1..Len(slots) :
                  k < l => slots[k][2] <= slots[l][1]
            /\ Range(slots) = LongGaps
            /\ ((Len(events) = 1 /\ events[1].start = At(0, 9, 0) /\ events[1].end = At(0, 18, 0))
                   => slots = <<>>)

\* The values lastEndTime takes in the for loop: before the first event, then after
\* each event of sortedEvents.
LastEndTimes(sortedEvents, start) ==
    LET cursor[k \in 0..Len(sortedEvents)] ==
            IF k = 0 THEN start
            ELSE IF DateGT(sortedEvents[k].end, cursor[k - 1])
                 THEN sortedEvents[k].end ELSE cursor[k - 1]
    IN  cursor

\* Where the walk of the function that was called starts.
WalkStart == IF out.fn = "utils" THEN SetHours(clock, WorkdayStartHour, 0) ELSE clock

C29_HelpersAgree ==
    FreeSlotsCalled =>
        /\ out.value = (IF out.fn = "utils" THEN findFreeSlots(events, clock)
                        ELSE UtilsFindFreeSlots(events, clock))
        /\ findOverlappingMeetings(events) = UtilsFindOverlappingMeetings(events)

(***************************************************************************)
(* SpecAssistant: the AIAssistant component.  env holds the component's    *)
(* state (isOpen, isLoading, answer), the queryAI calls that have not      *)
(* settled, and the last list handed to onHighlightEvents; query is the    *)
(* text of the input field.                                                *)
(***************************************************************************)
MaxInFlight == 2

\* !query.trim()
IsBlank(text) == Len(text) = 0

SamplesShownWithoutAnswer(state) == state.answer = ""

\* The sample buttons are rendered in the last arm of isLoading ? ... : answer ? ... : ...
SamplesShown(state) == ~state.isLoading /\ state.answer = ""

\* disabled={isLoading}
InputDisabled(state) == state.isLoading

\* disabled={isLoading || !query.trim()}
SubmitDisabled(state, text) == state.isLoading \/ IsBlank(text)

sampleQueries ==
    {<<"what", "meetings", "do", "i", "have", "today">>,
     <<"when", "is", "my", "next", "meeting">>,
     <<"do", "i", "have", "any", "meetings", "with", "john">>,
     <<"when", "am", "i", "free", "today">>,
     <<"what", "meetings", "do", "i", "have", "tomorrow">>}

TypedTexts == {<<>>, <<"today">>, <<"next", "meeting">>}

\* What a queryAI call can resolve to.
AssistantResponses ==
    {Result(Say("{answer}"), <<>>),
     Result(Say("{answer}"), <<Standup>>),
     Result(Say("{other answer}"), <<Standup, SyncWithJohn>>)}

InitAssistant ==
    /\ pc = "mounted"
    /\ query = <<>>
    /\ events = <<Standup, SyncWithJohn>>
    /\ clock = <<>>
    /\ env \in [isOpen : {FALSE}, isLoading : {FALSE}, answer : {""}, inFlight : {0},
                onHighlightEvents : BOOLEAN, highlighted : {<<>>}]
    /\ out = None

OpenAssistant ==
    /\ ~env.isOpen
    /\ env' = [env EXCEPT !.isOpen = TRUE]
    /\ UNCHANGED <<pc, query, events, clock, out>>

CloseAssistant ==
    /\ env.isOpen
    /\ env' = [env EXCEPT !.isOpen = FALSE]
    /\ UNCHANGED <<pc, query, events, clock, out>>

\* onChange={(e) => setQuery(e.target.value)}
TypeQuery ==
    /\ env.isOpen
    /\ ~InputDisabled(env)
    /\ \E text \in TypedTexts : query' = text
    /\ UNCHANGED <<pc, events, clock, env, out>>

\* handleSubmit up to its await, lines 28-37
HandleSubmit ==
    /\ env.isOpen
    /\ ~SubmitDisabled(env, query)
    /\ ~IsBlank(query)
    /\ env.inFlight < MaxInFlight
    /\ env' = [env EXCEPT !.isLoading = TRUE, !.answer = "", !.inFlight = @ + 1]
    /\ UNCHANGED <<pc, query, events, clock, out>>

\* handleSampleQuery up to its await, lines 63-71
HandleSampleQuery ==
    /\ env.isOpen
    /\ SamplesShown(env)
    /\ env.inFlight < MaxInFlight
    /\ \E sample \in sampleQueries : query' = sample
    /\ env' = [env EXCEPT !.isLoading = TRUE, !.answer = "", !.inFlight = @ + 1]
    /\ UNCHANGED <<pc, events, clock, out>>

\* The rest of either handler when queryAI resolves: lines 38-43 and 47-51.
QueryResolved ==
    /\ env.inFlight > 0
    /\ \E response \in AssistantResponses :
           env' = [env EXCEPT !.answer = response.answer.sentence,
                              !.highlighted =
                                  IF response.relatedEvents.defined /\ env.onHighlightEvents
                                  THEN response.relatedEvents.list ELSE @,
                              !.isLoading = FALSE,
                              !.inFlight = @ - 1]
    /\ query' = <<>>
    /\ UNCHANGED <<pc, events, clock, out>>

\* The rest of either handler when queryAI rejects: lines 44-51.
QueryRejected ==
    /\ env.inFlight > 0
    /\ env' = [env EXCEPT !.answer = "Sorry, I encountered an error processing your query.",
                          !.isLoading = FALSE,
                          !.inFlight = @ - 1]
    /\ query' = <<>>
    /\ UNCHANGED <<pc, events, clock, out>>

NextAssistant ==
    \/ OpenAssistant \/ CloseAssistant \/ TypeQuery
    \/ HandleSubmit \/ HandleSampleQuery
    \/ QueryResolved \/ QueryRejected

SpecAssistant == InitAssistant /\ [][NextAssistant]_vars

\* A call is started by this step.
CallStarts == env'.inFlight = env.inFlight + 1

\* C21: isLoading is true exactly while a queryAI call is outstanding; while it is true
\* the input and the submit button are disabled and no further call starts, so at most
\* one call is ever in flight; when the call settles, resolved or rejected, isLoading is
\* false and the input is enabled again.
C21_LoadingWhileOutstanding ==
    /\ [](env.isLoading <=> env.inFlight > 0)
    /\ [](env.inFlight <= 1)
    /\ [](env.isLoading => InputDisabled(env) /\ SubmitDisabled(env, query))
    /\ [][env.isLoading => ~CallStarts]_vars
    /\ [][(env.inFlight = 1 /\ env'.inFlight = 0)
           => ~env'.isLoading /\ ~InputDisabled(env')]_vars

\* A call has resolved with an event to highlight, and another one, started from the
\* input field, is outstanding.
C21_Witness ==
    /\ env.isLoading
    /\ env.inFlight = 1
    /\ env.isOpen
    /\ query = <<"next", "meeting">>
    /\ env.highlighted = <<Standup>>

(***************************************************************************)
(* SpecQuery: one call of queryAI of the client's ai-service.  env is what *)
(* the server does with the request: status 0 stands for a request that    *)
(* gets no response at all.                                                *)
(***************************************************************************)
Rethrown(error) == Thrown

\* The catch of queryAI, lines 44-49: the promise resolves to the fixed answer.
CatchQueryError(error) ==
    Result(Say("Sorry, I couldn't process your query. Please try again."), <<>>)

\* event.start.toISOString() and event.end.toISOString() throw a RangeError on an
\* Invalid Date, lines 24-25.
Unserialisable(list) == \E i \in 1..Len(list) : list[i].start = NaN \/ list[i].end = NaN

\* axios.post rejects when there is no response or the status is outside 200..299.
AxiosRejects(status) == status < 200 \/ status >= 300

\* queryAI, lines 17-50
queryAI(text, list, reply) ==
    IF Unserialisable(list) THEN CatchQueryError("RangeError")
    ELSE IF AxiosRejects(reply.status) THEN CatchQueryError("AxiosError")
    ELSE IF reply.data \in {"null", "relatedEvents with null"}
    THEN CatchQueryError("TypeError")
    ELSE IF reply.data = "answer and relatedEvents"
    THEN Result(Say("{data.answer}"), IF Len(list) = 0 THEN <<>> ELSE <<list[1]>>)
    ELSE Result(Say("{data.answer}"), <<>>)

ServerReplies ==
    [status : {0, 200, 400, 401, 500},
     data : {"null", "answer", "answer and relatedEvents", "relatedEvents with null"}]

InitQuery ==
    /\ pc = "call"
    /\ query \in {<<"today">>, <<"next", "meeting">>}
    /\ events \in PoolLists(MaxRouterEvents)
    /\ clock = <<>>
    /\ env \in ServerReplies
    /\ out = None

QueryAI ==
    /\ pc = "call"
    /\ out' = queryAI(query, events, env)
    /\ pc' = "settled"
    /\ UNCHANGED <<query, events, clock, env>>

NextQuery == QueryAI

SpecQuery == InitQuery /\ [][NextQuery]_vars

\* C22: queryAI never rejects; when the request gets no response, when the status is
\* not an OK one, or when the response cannot be processed, it resolves to
\* {answer: "Sorry, I couldn't process your query. Please try again."} with no
\* relatedEvents.
C22_QueryAINeverRejects ==
    pc = "settled"
    => /\ ~out.threw
       /\ (env.status = 0 \/ env.status \notin 200..299
           \/ env.data \in {"null", "relatedEvents with null"})
          => /\ out.answer.sentence =
                    "Sorry, I couldn't process your query. Please try again."
             /\ ~out.relatedEvents.defined

\* The server answered 500 to a request with events, and the call has settled.
C22_Witness ==
    /\ pc = "settled"
    /\ env.status = 500
    /\ Len(events) > 0
    /\ ~out.threw
    /\ out.answer.sentence = "Sorry, I couldn't process your query. Please try again."

(***************************************************************************)
(* SpecCalendar: the fetchEvents effect of CalendarView.  Sessions are     *)
(* numbered in the order useSession delivers them; env holds the current   *)
(* session, the component's state (calendarEvents, as the number of the    *)
(* session they were fetched for, 0 for the initial []; isLoading; error)  *)
(* and the runs of fetchEvents that are still awaiting the providers.      *)
(***************************************************************************)
MaxSessions == 4

InitCalendar ==
    /\ pc = "mounted"
    /\ query = <<>>
    /\ events = <<>>
    /\ clock = <<>>
    /\ env = [session |-> 0, accessToken |-> FALSE, calendarEvents |-> 0,
              isLoading |-> TRUE, error |-> "", outstanding |-> {}]
    /\ out = None

\* useSession delivers a session without accessToken: the effect returns at line 163.
SessionWithoutToken ==
    /\ env.session < MaxSessions
    /\ env' = [env EXCEPT !.session = @ + 1, !.accessToken = FALSE]
    /\ UNCHANGED <<pc, query, events, clock, out>>

\* useSession delivers a session with an accessToken: the effect calls fetchEvents,
\* which runs up to its first await (lines 165-274).
SessionWithToken ==
    /\ env.session < MaxSessions
    /\ env' = [env EXCEPT !.session = @ + 1, !.accessToken = TRUE,
                          !.isLoading = TRUE, !.error = "",
                          !.outstanding = @ \cup {env.session + 1}]
    /\ UNCHANGED <<pc, query, events, clock, out>>

\* The providers of a run have answered: lines 285-287 and 291-293.
FetchResolved ==
    /\ \E run \in env.outstanding :
           env' = [env EXCEPT !.calendarEvents = run, !.isLoading = FALSE,
                              !.outstanding = @ \ {run}]
    /\ UNCHANGED <<pc, query, events, clock, out>>

\* A provider of a run has failed: lines 288-293.
FetchRejected ==
    /\ \E run \in env.outstanding :
           env' = [env EXCEPT !.error = "Failed to load calendar events. Please try again.",
                              !.isLoading = FALSE,
                              !.outstanding = @ \ {run}]
    /\ UNCHANGED <<pc, query, events, clock, out>>

NextCalendar == SessionWithoutToken \/ SessionWithToken \/ FetchResolved \/ FetchRejected

SpecCalendar == InitCalendar /\ [][NextCalendar]_vars

\* C30: the events displayed are never replaced by those of an earlier session's
\* fetch, so that the events finally displayed are those of the latest fetch, and
\* isLoading is false only when no run of fetchEvents is outstanding.
C30_LatestFetchWins ==
    /\ [][env'.calendarEvents >= env.calendarEvents]_vars
    /\ [](~env.isLoading => env.outstanding = {})

====
